---- MODULE Spec2Model ----
(***************************************************************************)
(* A state-machine model of morty's pickle engine.                         *)
(*                                                                         *)
(*   src/src/pickle.rs   the Pickle object: add_files, build_graph,        *)
(*                       prune_graph, rename, get_replaced_string,         *)
(*                       get_pickle, get_classic_pickle                    *)
(*   src/src/lib.rs      the one-pass pipeline do_pickle and its Pickle    *)
(*                                                                         *)
(* Conventions.  A byte is a one-character string, a text a sequence of    *)
(* bytes.  Byte offsets are 0-based as in Locate.  A NodeIndex n of        *)
(* petgraph is the position n+1 of the node sequence, a file id i the      *)
(* position i+1 of all_files.  A HashMap is a function whose DOMAIN is     *)
(* its key set; the order in which the code iterates a HashMap is not      *)
(* fixed by the program, so every such choice is made with \E.             *)
(***************************************************************************)
EXTENDS Integers, Sequences, FiniteSets, TLC

\* ------------------------------------------------------------- bounds
\* The largest number of declarations in the input files.
MaxDecls == 3
\* The largest number of usages (instantiations) in the input files.
MaxUses == 2
\* The largest number of input files.
MaxFiles == 2
\* The largest number of declarations in the inputs that vary the text layout.
MaxTextDecls == 2
\* The largest number of instantiations in a library file.
MaxLibUses == 1
\* The largest number of declarations in the inputs of the manifest.
MaxManifestDecls == 2
\* The number of files the parse stage is given.
MaxParseFiles == 3
\* The largest number of port declaration nodes of the instantiated module, of
\* ports one node names, of ports an instance connects by name, and of
\* instances in one instantiation.
MaxPortNodes == 2
MaxPortIds == 2
MaxNamed == 1
MaxInstances == 2
\* The largest number of entries of a replacement table given as an input, the
\* largest offset and the largest length of such an entry.
MaxEdits == 2
MaxEditOffset == 4
MaxEditLen == 2
\* The largest number of declarations, of usages and of top-level import
\* declarations of a file, and of items of an import declaration, in the inputs
\* with top-level package imports.
MaxImportDecls == 2
MaxImportUses == 1
MaxImports == 1
MaxImportItems == 2
\* The depth of the call stack: more calls of load_library_module than can be
\* open at once when none of them repeats an earlier one.
MaxStack == 7

\* ------------------------------------------------------------- basics
Names == {"a", "b", "c", "d"}
NameOrder == <<"a", "b", "c", "d">>
Kinds == {"Module", "Interface", "Package"}
None == "none"
NL == "\n"

EmptyMap == [x \in {} |-> 0]

\* HashMap::insert
Insert(m, k, v) == [x \in (DOMAIN m) \cup {k} |-> IF x = k THEN v ELSE m[x]]


RECURSIVE Concat(_)
\* The concatenation of a sequence of texts.
Concat(ss) == IF ss = <<>> THEN <<>> ELSE Head(ss) \o Concat(Tail(ss))

RECURSIVE SumSet(_, _)
\* The sum of f[x] over the x in S.
SumSet(f, S) ==
    IF S = {} THEN 0
    ELSE LET x == CHOOSE y \in S : TRUE IN f[x] + SumSet(f, S \ {x})

SeqsUpTo(S, n) == UNION {[1..k -> S] : k \in 0..n}

\* The elements of a sequence.
Range(q) == {q[i] : i \in DOMAIN q}

\* str::ends_with('\n')
EndsWithNL(text) == text # <<>> /\ text[Len(text)] = NL

\* ------------------------------------------------------------- the syntax tree
(***************************************************************************)
(* The parser is an external collaborator; a parsed file is an input.  A   *)
(* file is a sequence of top-level declarations,                           *)
(*     [kind, name, uses, nl]                                              *)
(* and its text is laid out as                                             *)
(*     K n  u1 ;  u2 ; ...  E  [\n]                                        *)
(* K the keyword byte of the kind, n the declared name, each u_k ; an      *)
(* instantiation of u_k, E the end keyword, and \n the white space the     *)
(* parser attaches to the end keyword when there is some.                  *)
(***************************************************************************)
KindChar == [k \in Kinds |-> CASE k = "Module" -> "M"
                               [] k = "Interface" -> "I"
                               [] OTHER -> "P"]

RECURSIVE UsesText(_)
UsesText(us) == IF us = <<>> THEN <<>> ELSE <<Head(us), ";">> \o UsesText(Tail(us))

DeclText(d) ==
    <<KindChar[d.kind], d.name>> \o UsesText(d.uses) \o <<"E">>
        \o (IF d.nl THEN <<NL>> ELSE <<>>)

\* The text of the declarations of a file.
DeclsText(f) == Concat([j \in 1..Len(f.decls) |-> DeclText(f.decls[j])])

\* The package import declarations at the top level of a file, each the
\* sequence of the packages its items name (`import p::*, q::*;`); they follow
\* the declarations, and a file may have none.
Imports(f) == IF "imports" \in DOMAIN f THEN f.imports ELSE <<>>

\* `import p::*, q::*;` as text: i p q ;
ImportText(items) == <<"i">> \o items \o <<";">>

\* ParsedFile.source
Source(f) ==
    DeclsText(f) \o Concat([k \in DOMAIN Imports(f) |-> ImportText(Imports(f)[k])])

RECURSIVE DeclOffset(_, _)
\* The offset of the j-th declaration of file f.
DeclOffset(f, j) ==
    IF j = 1 THEN 0 ELSE DeclOffset(f, j - 1) + Len(DeclText(f.decls[j - 1]))

\* Locate::try_from of the j-th declaration: the whole declaration.
DeclLoc(f, j) == [offset |-> DeclOffset(f, j), len |-> Len(DeclText(f.decls[j]))]
\* The identifier token of the j-th declaration.
DeclIdent(f, j) == [offset |-> DeclOffset(f, j) + 1, len |-> 1]
\* Locate::try_from of the k-th instantiation of the j-th declaration.
UseLoc(f, j, k) == [offset |-> DeclOffset(f, j) + 2 * k, len |-> 2]
\* The identifier token of that instantiation.
UseIdent(f, j, k) == [offset |-> DeclOffset(f, j) + 2 * k, len |-> 1]
RECURSIVE ImportOffset(_, _)
ImportOffset(f, k) ==
    IF k = 1 THEN Len(DeclsText(f))
    ELSE ImportOffset(f, k - 1) + Len(ImportText(Imports(f)[k - 1]))

\* Locate::try_from of the k-th DescriptionPackageItem that holds an import.
ImportLoc(f, k) == [offset |-> ImportOffset(f, k), len |-> Len(ImportText(Imports(f)[k]))]
\* Locate::try_from of the SourceText node: the whole file.
SourceLoc(f) == [offset |-> 0, len |-> Len(Source(f))]

\* The nodes of a declaration in the order the tree's iterator yields them.
DeclNodes(f, j) ==
    <<[type |-> "decl", loc |-> DeclLoc(f, j), ident |-> DeclIdent(f, j)]>>
    \o [k \in 1..Len(f.decls[j].uses) |->
           [type |-> "inst", loc |-> UseLoc(f, j, k), ident |-> UseIdent(f, j, k)]]

\* `for node in &pf.ast`, the nodes that carry a Locate of their own.
AstNodes(f) == Concat([j \in 1..Len(f.decls) |-> DeclNodes(f, j)])

\* ------------------------------------------------------------- the inputs
RECURSIVE UsesFor(_, _)
\* The ways to give n declarations usage lists of at most `budget` usages in all.
UsesFor(n, budget) ==
    IF n = 0 THEN {<<>>}
    ELSE UNION {{<<u>> \o rest : rest \in UsesFor(n - 1, budget - Len(u))}
                   : u \in SeqsUpTo(Names, budget)}

\* Declared names up to renaming: the k-th declaration repeats an earlier name
\* or takes the first name not used yet.
Canonical(ns) ==
    \A k \in 1..Len(ns) :
        LET used == {ns[j] : j \in 1..(k - 1)} IN
        \/ ns[k] \in used
        \/ /\ Cardinality(used) < Len(NameOrder)
           /\ ns[k] = NameOrder[Cardinality(used) + 1]

\* The ways to cut n declarations into at most MaxFiles non-empty files.
Cuts(n) == {c \in SUBSET (1..(n - 1)) : Cardinality(c) < MaxFiles}

RECURSIVE FilesOf(_, _, _)
\* The files of the declarations ds with a new file after each position of cut.
FilesOf(ds, cut, from) ==
    IF from > Len(ds) THEN <<>>
    ELSE LET ends == {e \in from..Len(ds) : e \in cut \/ e = Len(ds)}
             to == CHOOSE e \in ends : \A e2 \in ends : e <= e2
         IN <<[decls |-> SubSeq(ds, from, to)]>> \o FilesOf(ds, cut, to + 1)

\* Graph inputs: every shape of the dependency graph; a name fixes its kind.
KindOfName == [n \in Names |-> CASE n = "a" -> "Module"
                                 [] n = "b" -> "Interface"
                                 [] OTHER -> "Package"]

GraphInputs ==
    UNION {UNION {UNION {
        {FilesOf([j \in 1..n |-> [kind |-> KindOfName[ns[j]], name |-> ns[j],
                                  uses |-> us[j], nl |-> FALSE]], cut, 1)
            : cut \in Cuts(n)}
        : us \in UsesFor(n, MaxUses)}
        : ns \in {x \in [1..n -> Names] : Canonical(x)}}
        : n \in 1..MaxDecls}

\* Declaration inputs: every choice of kinds, names up to renaming, no usage.
DeclInputs ==
    UNION {UNION {UNION {
        {FilesOf([j \in 1..n |-> [kind |-> ks[j], name |-> ns[j],
                                  uses |-> <<>>, nl |-> FALSE]], cut, 1)
            : cut \in Cuts(n)}
        : ks \in [1..n -> Kinds]}
        : ns \in {x \in [1..n -> Names] : Canonical(x)}}
        : n \in 1..MaxDecls}

\* Text inputs: distinct declarations with every layout of line ends.
TextNames == {"a", "b", "c"}

RECURSIVE TextUsesFor(_, _)
TextUsesFor(n, budget) ==
    IF n = 0 THEN {<<>>}
    ELSE UNION {{<<u>> \o rest : rest \in TextUsesFor(n - 1, budget - Len(u))}
                   : u \in SeqsUpTo(TextNames, budget)}

TextInputs ==
    UNION {UNION {UNION {
        {FilesOf([j \in 1..n |-> [kind |-> KindOfName[NameOrder[j]], name |-> NameOrder[j],
                                  uses |-> us[j], nl |-> nls[j]]], cut, 1)
            : cut \in Cuts(n)}
        : nls \in [1..n -> BOOLEAN]}
        : us \in TextUsesFor(n, MaxUses)}
        : n \in 1..MaxTextDecls}

\* The runs: the files given, and whether the caller prunes and renames.
Runs ==
    {[files |-> f, caller |-> [prunes |-> TRUE, renames |-> FALSE]] : f \in GraphInputs}
    \cup {[files |-> f, caller |-> [prunes |-> FALSE, renames |-> FALSE]] : f \in DeclInputs}
    \cup {[files |-> f, caller |-> [prunes |-> FALSE, renames |-> TRUE]] : f \in TextInputs}

\* The arguments the caller draws from.
Prefixes == {None, "p"}
Suffixes == {None, "s"}
ExcludeRenames == {{}, {"b"}}
Excludes == {{}, {"b"}}
LibExcludes == {{}, {"a"}}


\* ------------------------------------------------------------- petgraph::Graph
(***************************************************************************)
(* Graph<String, ()>: nodes is the node vector (the weight of node i is    *)
(* nodes[i]); edges maps a pair <<source, target>> to the number of edges  *)
(* between the two.                                                        *)
(***************************************************************************)
NewGraph == [nodes |-> <<>>, edges |-> EmptyMap]

NodeIndices(g) == 1..Len(g.nodes)

\* Graph::add_node: the new node gets the next index.
AddNode(g, w) == [g EXCEPT !.nodes = Append(@, w)]

\* Graph::update_edge: an existing edge a -> b is kept, else one is added.
UpdateEdge(g, a, b) ==
    IF <<a, b>> \in DOMAIN g.edges THEN g
    ELSE [g EXCEPT !.edges = Insert(@, <<a, b>>, 1)]

\* neighbors_directed(a, Outgoing).count()
OutDegree(g, a) == SumSet(g.edges, {p \in DOMAIN g.edges : p[1] = a})
\* neighbors_directed(a, Incoming).count()
InDegree(g, a) == SumSet(g.edges, {p \in DOMAIN g.edges : p[2] = a})

\* Graph::remove_node: the edges of a go, and the last node takes a's index.
RemoveNode(g, a) ==
    IF a \notin NodeIndices(g) THEN g
    ELSE LET n == Len(g.nodes)
             kept == {p \in DOMAIN g.edges : p[1] # a /\ p[2] # a}
             mv(i) == IF i = n THEN a ELSE i
             back(i) == IF i = a /\ a # n THEN n ELSE i
         IN [nodes |-> [i \in 1..(n - 1) |-> IF i = a THEN g.nodes[n] ELSE g.nodes[i]],
             edges |-> [p \in {<<mv(q[1]), mv(q[2])>> : q \in kept} |->
                           g.edges[<<back(p[1]), back(p[2])>>]]]

RECURSIVE RetainForwardFrom(_, _, _)
RetainForwardFrom(g, keep, i) ==
    IF i > Len(g.nodes) THEN g
    ELSE RetainForwardFrom(IF i \in keep THEN g ELSE RemoveNode(g, i), keep, i + 1)

\* A retain_nodes that visits the indices from the first to the last.
RetainNodesForward(g, keep) == RetainForwardFrom(g, keep, 1)

RECURSIVE RetainFrom(_, _, _)
RetainFrom(g, keep, i) ==
    IF i = 0 THEN g
    ELSE RetainFrom(IF i \in keep THEN g ELSE RemoveNode(g, i), keep, i - 1)

\* Graph::retain_nodes(|_, n| keep.contains(n)): the indices are visited from
\* the last to the first, and a node whose index is not in keep is removed.
RetainNodes(g, keep) == RetainFrom(g, keep, Len(g.nodes))

RECURSIVE DijkstraFrom(_, _, _, _)
DijkstraFrom(g, scores, frontier, d) ==
    IF frontier = {} THEN scores
    ELSE LET next == {p[2] : p \in {q \in DOMAIN g.edges : q[1] \in frontier}}
                         \ DOMAIN scores
         IN DijkstraFrom(g, [x \in (DOMAIN scores) \cup next |->
                                IF x \in DOMAIN scores THEN scores[x] ELSE d + 1],
                         next, d + 1)

\* A search that stops at the nodes start has an edge to.
DijkstraNeighbours(g, start) ==
    LET next == {p[2] : p \in {q \in DOMAIN g.edges : q[1] = start}} \ {start}
    IN [x \in {start} \cup next |-> IF x = start THEN 0 ELSE 1]

\* petgraph::algo::dijkstra(g, start, None, |_| 1): the cost of every node
\* that start reaches, start included.
Dijkstra(g, start) == DijkstraFrom(g, Insert(EmptyMap, start, 0), {start}, 0)

\* ------------------------------------------------------------- build_graph
\* The (file, declaration) positions in the order the loops visit them.
DeclSites(files) ==
    Concat([i \in 1..Len(files) |-> [j \in 1..Len(files[i].decls) |-> <<i, j>>]])

\* A test that lets a name be declared again with another kind.
IsDeclaredSameKind(p, d) ==
    d.name \in DOMAIN p.declarations /\ p.declarations[d.name].kind = d.kind

\* self.declarations.contains_key(&module_name), the test of each of the three
\* arms (module, interface, package) of register_declarations.
IsDeclared(p, d) == d.name \in DOMAIN p.declarations

\* One arm of register_declarations: the declaration at site s.
RegisterDeclaration(p, files, s) ==
    LET d == files[s[1]].decls[s[2]]
        g == AddNode(p.module_graph, d.name)
    IN IF IsDeclared(p, d)
       THEN [p EXCEPT !.err = "duplicate"]
       ELSE [p EXCEPT
               !.module_graph = g,
               !.module_graph_nodes = Insert(@, d.name, Len(g.nodes)),
               !.declarations = Insert(@, d.name,
                   [kind |-> d.kind, file |-> s[1], loc |-> DeclLoc(files[s[1]], s[2])]),
               !.usages = Insert(@, d.name, <<>>)]

RECURSIVE RegisterDeclarationsFrom(_, _, _)
RegisterDeclarationsFrom(p, files, sites) ==
    IF sites = <<>> \/ p.err # None THEN p
    ELSE RegisterDeclarationsFrom(RegisterDeclaration(p, files, Head(sites)),
                                  files, Tail(sites))

\* Pickle::register_declarations
RegisterDeclarations(p, files) == RegisterDeclarationsFrom(p, files, DeclSites(files))

\* The body of `for inst in instantiations`: the k-th usage at site s.
RegisterInst(p, files, s, k) ==
    LET d == files[s[1]].decls[s[2]]
        name == d.uses[k]
        fresh == name \notin DOMAIN p.module_graph_nodes
        g1 == IF fresh THEN AddNode(p.module_graph, name) ELSE p.module_graph
        nodes1 == IF fresh THEN Insert(p.module_graph_nodes, name, Len(g1.nodes))
                  ELSE p.module_graph_nodes
        usages1 == IF fresh THEN Insert(p.usages, name, <<>>) ELSE p.usages
    IN [p EXCEPT
          !.module_graph = UpdateEdge(g1, nodes1[d.name], nodes1[name]),
          !.module_graph_nodes = nodes1,
          !.usages = Insert(usages1, name,
              Append(usages1[name], [file |-> s[1], loc |-> UseLoc(files[s[1]], s[2], k)]))]

RECURSIVE RegisterInstsFrom(_, _, _, _)
RegisterInstsFrom(p, files, s, k) ==
    IF k > Len(files[s[1]].decls[s[2]].uses) THEN p
    ELSE RegisterInstsFrom(RegisterInst(p, files, s, k), files, s, k + 1)

\* Every package an import declaration names.
AllImported(items) == items

\* `unwrap_node!(package_import, SimpleIdentifier)`: the first identifier under
\* the import declaration, the package of its first item
FirstImported(items) == <<items[1]>>

\* `global_packages` of a file: a name and a Locate for each top-level item
\* that holds an import declaration
GlobalPackages(f) ==
    Concat([k \in DOMAIN Imports(f) |->
        [x \in DOMAIN FirstImported(Imports(f)[k]) |->
            [name |-> FirstImported(Imports(f)[k])[x], loc |-> ImportLoc(f, k)]]])

RECURSIVE RegisterGlobalPackages(_, _, _)
\* `for package in global_packages`: the node added if there is none, the
\* usage pushed
RegisterGlobalPackages(p, i, packages) ==
    IF packages = <<>> THEN p
    ELSE LET name == Head(packages).name
             fresh == name \notin DOMAIN p.module_graph_nodes
             g1 == IF fresh THEN AddNode(p.module_graph, name) ELSE p.module_graph
             nodes1 == IF fresh THEN Insert(p.module_graph_nodes, name, Len(g1.nodes))
                       ELSE p.module_graph_nodes
             usages1 == IF fresh THEN Insert(p.usages, name, <<>>) ELSE p.usages
         IN RegisterGlobalPackages(
                [p EXCEPT !.module_graph = g1,
                          !.module_graph_nodes = nodes1,
                          !.usages = Insert(usages1, name,
                              Append(usages1[name], [file |-> i, loc |-> Head(packages).loc]))],
                i, Tail(packages))

RECURSIVE GlobalPackageEdges(_, _, _)
\* `for package in global_packages` at the end of an arm: update_edge from the
\* declaration to the package
GlobalPackageEdges(p, parent_name, packages) ==
    IF packages = <<>> THEN p
    ELSE GlobalPackageEdges(
            [p EXCEPT !.module_graph =
                UpdateEdge(@, p.module_graph_nodes[parent_name],
                           p.module_graph_nodes[Head(packages).name])],
            parent_name, Tail(packages))

RECURSIVE RegisterFileUsages(_, _, _, _)
\* `for node in &pf.ast` of register_usages from declaration j of file i on
RegisterFileUsages(p, files, i, j) ==
    IF j > Len(files[i].decls) THEN p
    ELSE RegisterFileUsages(
            GlobalPackageEdges(RegisterInstsFrom(p, files, <<i, j>>, 1),
                               files[i].decls[j].name, GlobalPackages(files[i])),
            files, i, j + 1)

RECURSIVE RegisterUsagesFrom(_, _, _)
\* `for i in 0..self.all_files.len()` of register_usages from file i on
RegisterUsagesFrom(p, files, i) ==
    IF i > Len(files) THEN p
    ELSE RegisterUsagesFrom(
            RegisterFileUsages(RegisterGlobalPackages(p, i, GlobalPackages(files[i])),
                               files, i, 1),
            files, i + 1)

\* Pickle::register_usages
RegisterUsages(p, files) == RegisterUsagesFrom(p, files, 1)

\* Pickle::build_graph on the Pickle p (p.err tells how it returned).
BuildGraphOf(p, files) ==
    LET p1 == RegisterDeclarations(p, files)
    IN IF p1.err # None THEN p1 ELSE RegisterUsages(p1, files)

\* ------------------------------------------------------------- prune_graph
\* Pickle::refactor_graph_nodes: the map rebuilt from the graph's nodes, a later
\* node index replacing an earlier one with the same name.
RefactorGraphNodes(g) ==
    [name \in {g.nodes[i] : i \in NodeIndices(g)} |->
        CHOOSE i \in NodeIndices(g) :
            /\ g.nodes[i] = name
            /\ \A j \in NodeIndices(g) : g.nodes[j] = name => j <= i]

\* A test that takes only a declared name for a top.
HasNodeDeclared(p, top_module) == top_module \in DOMAIN p.declarations

\* self.module_graph_nodes.contains_key(top_module)
HasNode(p, top_module) == top_module \in DOMAIN p.module_graph_nodes

\* Pickle::prune_graph(top_module) on the Pickle p.
PruneGraphOf(p, top_module) ==
    IF ~HasNode(p, top_module)
    THEN [p EXCEPT !.err = "top_not_found"]
    ELSE LET test_weights == Dijkstra(p.module_graph, p.module_graph_nodes[top_module])
             g == RetainNodes(p.module_graph, DOMAIN test_weights)
         IN [p EXCEPT !.module_graph = g,
                      !.module_graph_nodes = RefactorGraphNodes(g),
                      !.err = None]

\* ------------------------------------------------------------- rename
\* Pickle::get_node_from_locate: the first node of the file whose Locate is
\* `location`, or an error when there is none.
GetNodeFromLocate(files, file_id, location) ==
    LET nodes == AstNodes(files[file_id])
        hits == {x \in 1..Len(nodes) : nodes[x].loc = location}
    IN IF hits = {} THEN [ok |-> FALSE]
       ELSE [ok |-> TRUE, node |-> nodes[CHOOSE x \in hits : \A y \in hits : x <= y]]

\* A new name that leaves the suffix out.
NewStringNoSuffix(name, prefix, suffix) ==
    (IF prefix = None THEN <<>> ELSE <<prefix>>) \o <<name>>

\* format!("{}{}", pre, name) and format!("{}{}", name, suf)
NewString(name, prefix, suffix) ==
    (IF prefix = None THEN <<>> ELSE <<prefix>>) \o <<name>>
        \o (IF suffix = None THEN <<>> ELSE <<suffix>>)

\* An entry of replace_table: (file id, Locate, replacement).
Edit(file_id, loc, repl) ==
    [file |-> file_id, offset |-> loc.offset, len |-> loc.len, repl |-> repl]

RECURSIVE RenameUsagesFrom(_, _, _, _)
\* `for (use_file_id, use_locate) in &self.usages[name]`
RenameUsagesFrom(p, files, us, new_string) ==
    IF us = <<>> \/ p.err # None THEN p
    ELSE LET use_node == GetNodeFromLocate(files, Head(us).file, Head(us).loc)
         IN IF ~use_node.ok THEN [p EXCEPT !.err = "locate"]
            ELSE RenameUsagesFrom(
                    [p EXCEPT !.replace_table =
                        Append(@, Edit(Head(us).file, use_node.node.ident, new_string))],
                    files, Tail(us), new_string)

\* The body of `for (name, module) in &self.declarations` in rename.
RenameDeclaration(p, files, name, prefix, suffix, exclude_rename) ==
    IF name \in exclude_rename THEN p
    ELSE LET module == p.declarations[name]
             new_string == NewString(name, prefix, suffix)
             found_node == GetNodeFromLocate(files, module.file, module.loc)
         IN IF ~found_node.ok THEN [p EXCEPT !.err = "locate"]
            ELSE RenameUsagesFrom(
                    [p EXCEPT !.replace_table =
                        Append(@, Edit(module.file, found_node.node.ident, new_string))],
                    files, p.usages[name], new_string)

RECURSIVE RenameFrom(_, _, _, _, _, _)
RenameFrom(p, files, order, prefix, suffix, exclude_rename) ==
    IF order = <<>> \/ p.err # None THEN p
    ELSE RenameFrom(RenameDeclaration(p, files, Head(order), prefix, suffix, exclude_rename),
                    files, Tail(order), prefix, suffix, exclude_rename)

\* The orders in which a HashMap with the key set S may be iterated.
Orders(S) == {o \in [1..Cardinality(S) -> S] : \A x \in S : \E i \in DOMAIN o : o[i] = x}

\* Pickle::rename(prefix, suffix, exclude_rename), the declarations iterated in
\* `order`.
RenameOf(p, files, order, prefix, suffix, exclude_rename) ==
    RenameFrom([p EXCEPT !.err = None], files, order, prefix, suffix, exclude_rename)

\* ------------------------------------------------------------- get_replaced_string
RECURSIVE InsertByOffset(_, _)
\* r put after the entries of the sorted list whose offset is not larger.
InsertByOffset(sorted, r) ==
    IF sorted = <<>> THEN <<r>>
    ELSE IF Head(sorted).offset <= r.offset
         THEN <<Head(sorted)>> \o InsertByOffset(Tail(sorted), r)
         ELSE <<r>> \o sorted

RECURSIVE SortByOffset(_)
\* replacements.sort_by(|a, b| a.0.cmp(&b.0)): a stable sort by offset.
SortByOffset(rs) ==
    IF rs = <<>> THEN <<>>
    ELSE InsertByOffset(SortByOffset(SubSeq(rs, 1, Len(rs) - 1)), rs[Len(rs)])

\* replacements[i - 1].0 + replacements[i - 1].1 > replacements[i].0 for some i
Overlapping(rs) ==
    \E i \in 2..Len(rs) : rs[i - 1].offset + rs[i - 1].len > rs[i].offset

\* &s[from..to] of a text (0-based, to excluded)
Slice(s, from, to) == SubSeq(s, from + 1, to)

RECURSIVE ApplyEdits(_, _, _, _)
\* The replacement loop: the text between the edits is copied, every edit's
\* replacement written; a slice whose bounds are out of order panics.
ApplyEdits(needed_string, rs, pos, out_string) ==
    IF rs = <<>>
    THEN IF pos > Len(needed_string) THEN [ok |-> FALSE, text |-> <<>>]
         ELSE [ok |-> TRUE,
               text |-> out_string \o Slice(needed_string, pos, Len(needed_string))]
    ELSE LET r == Head(rs) IN
         IF pos > r.offset \/ r.offset > Len(needed_string)
         THEN [ok |-> FALSE, text |-> <<>>]
         ELSE ApplyEdits(needed_string, Tail(rs), r.offset + r.len,
                         out_string \o Slice(needed_string, pos, r.offset) \o r.repl)

\* The replacements get_replaced_string selects for a span: those of the file
\* whose offset is past the span's start and before its end, rebased to the span.
Replacements(replace_table, file_id, location) ==
    LET InSpan(x) == /\ x.file = file_id
                     /\ x.offset > location.offset
                     /\ x.offset - location.offset < location.len
        sel == SelectSeq(replace_table, InSpan)
    IN [i \in 1..Len(sel) |-> [offset |-> sel[i].offset - location.offset,
                               len |-> sel[i].len, repl |-> sel[i].repl]]

\* Pickle::get_replaced_string(file_id, location): [ok |-> FALSE] stands for the
\* panic of unimplemented!() on overlapping replacements (or of a slice).
GetReplacedString(replace_table, files, file_id, location) ==
    LET replacements == SortByOffset(Replacements(replace_table, file_id, location))
        needed_string == Slice(Source(files[file_id]), location.offset,
                               location.offset + location.len)
        applied == ApplyEdits(needed_string, replacements, 0, <<>>)
    IN IF Overlapping(replacements) THEN [ok |-> FALSE, text |-> <<>>]
       ELSE IF ~applied.ok THEN applied
       ELSE [ok |-> TRUE,
             text |-> IF EndsWithNL(needed_string) THEN applied.text
                      ELSE Append(applied.text, NL)]

\* "// Compiled by morty-{version} / {time}\n\n": # stands for the comment line.
Banner == <<"#", NL, NL>>

\* writeln!(out, "{:}", text)
Writeln(out, text) == out \o text \o <<NL>>

\* ------------------------------------------------------------- lib.rs: Pickle
(***************************************************************************)
(* do_pickle of lib.rs works on its own Pickle, a record here: the options *)
(* it was made with, rename_table, replace_table (entries are (offset,     *)
(* len, text), the table is per file), inst_table, the graph, its          *)
(* name -> node index map, and module_file_map (a file's path is its       *)
(* index), libs (LibraryBundle.files: name -> the parsed library file) and *)
(* used_libs.  No top module is given and no define is removed.            *)
(***************************************************************************)
\* Pickle::new of lib.rs
LibNew(prefix, suffix, exclude_rename, exclude_set) ==
    [prefix |-> prefix, suffix |-> suffix, exclude_rename |-> exclude_rename,
     exclude |-> exclude_set, rename_table |-> EmptyMap, replace_table |-> <<>>,
     inst_table |-> {}, module_graph |-> NewGraph, module_graph_nodes |-> EmptyMap,
     module_file_map |-> EmptyMap, libs |-> EmptyMap, used_libs |-> <<>>]

\* Pickle::register_declaration of lib.rs for the declaration at site s
LibRegisterDeclaration(p, files, s) ==
    LET module_name == files[s[1]].decls[s[2]].name
        g == AddNode(p.module_graph, module_name)
        new_name == (IF p.prefix = None THEN <<>> ELSE <<p.prefix>>) \o <<module_name>>
                        \o (IF p.suffix = None THEN <<>> ELSE <<p.suffix>>)
        p1 == [p EXCEPT !.module_graph = g,
                        !.module_graph_nodes = Insert(@, module_name, Len(g.nodes)),
                        !.module_file_map = Insert(@, module_name, s[1])]
    IN IF module_name \in p.exclude_rename \/ module_name \in p.exclude THEN p1
       ELSE [p1 EXCEPT !.rename_table = Insert(@, module_name, new_name)]

\* Pickle::add_dependency_relation(inst_name, parent_name)
LibAddDependencyRelation(p, inst_name, parent_name) ==
    LET fresh == inst_name \notin DOMAIN p.module_graph_nodes
        g == IF fresh THEN AddNode(p.module_graph, inst_name) ELSE p.module_graph
        nodes == IF fresh THEN Insert(p.module_graph_nodes, inst_name, Len(g.nodes))
                 ELSE p.module_graph_nodes
    IN [p EXCEPT !.module_graph = UpdateEdge(g, nodes[parent_name], nodes[inst_name]),
                 !.module_graph_nodes = nodes]

\* Pickle::register_instantiation_with_parent; the library bundle is empty, so
\* load_library_module finds nothing for a name rename_table does not have.
LibRegisterInstantiation(p, inst_name, parent_name) ==
    LibAddDependencyRelation([p EXCEPT !.inst_table = @ \cup {inst_name}],
                             inst_name, parent_name)

RECURSIVE LibDeclarationsFrom(_, _, _)
\* The first loop of do_pickle: every declaration of every file registered.
LibDeclarationsFrom(p, files, sites) ==
    IF sites = <<>> THEN p
    ELSE LibDeclarationsFrom(LibRegisterDeclaration(p, files, Head(sites)),
                             files, Tail(sites))

RECURSIVE LibInstantiationsOf(_, _, _)
\* Pickle::find_and_register_instantiations for a declaration's usages
LibInstantiationsOf(p, uses, parent_name) ==
    IF uses = <<>> THEN p
    ELSE LibInstantiationsOf(LibRegisterInstantiation(p, Head(uses), parent_name),
                             Tail(uses), parent_name)

RECURSIVE LibInstantiationsFrom(_, _, _)
\* The second loop of do_pickle
LibInstantiationsFrom(p, files, sites) ==
    IF sites = <<>> THEN p
    ELSE LET d == files[Head(sites)[1]].decls[Head(sites)[2]]
         IN LibInstantiationsFrom(LibInstantiationsOf(p, d.uses, d.name),
                                  files, Tail(sites))

\* Pickle::register_usage of lib.rs for the identifier `name` at loc
LibRegisterUsage(p, name, loc) ==
    IF name \notin DOMAIN p.rename_table THEN p
    ELSE [p EXCEPT !.replace_table =
            Append(@, [offset |-> loc.offset, len |-> loc.len,
                       repl |-> p.rename_table[name]])]

\* Pickle::register_exclude for the declaration `name` that covers locate
LibRegisterExclude(p, name, locate) ==
    IF name \notin p.exclude THEN p
    ELSE [p EXCEPT !.replace_table =
            Append(@, [offset |-> locate.offset, len |-> locate.len, repl |-> <<>>])]

RECURSIVE LibUsagesOf(_, _, _, _)
LibUsagesOf(p, f, j, k) ==
    IF k > Len(f.decls[j].uses) THEN p
    ELSE LibUsagesOf(LibRegisterUsage(p, f.decls[j].uses[k], UseIdent(f, j, k)),
                     f, j, k + 1)

RECURSIVE LibPlanFrom(_, _, _)
\* `for node in &pf.ast` of the emit loop from declaration j on: the
\* declaration node first, then its identifier, then the usages in it.
LibPlanFrom(p, f, j) ==
    IF j > Len(f.decls) THEN p
    ELSE LET d == f.decls[j]
             p1 == LibRegisterExclude(p, d.name, DeclLoc(f, j))
             p2 == LibRegisterUsage(p1, d.name, DeclIdent(f, j))
         IN LibPlanFrom(LibUsagesOf(p2, f, j, 1), f, j + 1)

\* The pairs the "Offset error" check of do_pickle reports.
OffsetErrors(table) ==
    {i \in 1..(Len(table) - 1) : table[i].offset + table[i].len > table[i + 1].offset}

RECURSIVE LibApply(_, _, _, _)
\* The replacement loop of do_pickle: an edit that starts before pos is skipped.
LibApply(source, table, pos, text) ==
    IF table = <<>> THEN text \o Slice(source, pos, Len(source))
    ELSE LET r == Head(table) IN
         IF pos > r.offset THEN LibApply(source, Tail(table), pos, text)
         ELSE LibApply(source, Tail(table), r.offset + r.len,
                       text \o Slice(source, pos, r.offset) \o r.repl)

\* ------------------------------------------------------------- state
VARIABLES
    file_list,           \* the input: the files to parse, in order
    caller,              \* the input: which optional steps the caller takes
    all_files,           \* Pickle.all_files
    module_graph,        \* Pickle.module_graph
    module_graph_nodes,  \* Pickle.module_graph_nodes: name -> node index
    declarations,        \* Pickle.declarations: name -> (kind, file id, Locate)
    usages,              \* Pickle.usages: name -> list of (file id, Locate)
    replace_table,       \* Pickle.replace_table: list of (file id, Locate, text)
    internal_graph,      \* get_pickle: its copy of the graph
    internal_nodes,      \* get_pickle: its copy of the name -> node index map
    limit,               \* get_pickle: the rounds left
    exclude,             \* get_pickle: the exclude argument
    removed,             \* the names get_pickle removed from its graph, in order
    out,                 \* the bytes written to the output
    pickle,              \* do_pickle of lib.rs: its Pickle
    new_replace_table,   \* do_pickle: the sorted replacement table of the file
    pf,                  \* do_pickle: the file the emit loop is at
    stderr,              \* do_pickle: the lines written to the error stream
    libs,                \* Pickle.libs of pickle.rs: the library map, or None
    stack,               \* the calls of load_library_module that have not returned
    library_files,       \* do_pickle: the library files parsed so far
    cursor,              \* do_pickle: the instantiation the second loop is at
    bundles,             \* the input: the file bundles, a file named by its position
    top_module,          \* do_pickle: the top module asked for, or None
    manifest,            \* the manifest written
    options,             \* the parse stage: the flags it is called with
    internal_defines,    \* the parse stage: the defines the next file is parsed with
    bundle_at,           \* the parse stage: the bundle the loop is at
    results,             \* the parse stage: what became of each file of the bundle
    syntax_trees,        \* build_syntax_tree: the parsed files collected so far
    parse_log,           \* the calls of parse_file that returned, with their defines
    pc,                  \* where the caller is
    err,                 \* the error the last operation returned, or None
    last                 \* the last operation, its arguments and the state it started in

vars == <<file_list, caller, all_files, module_graph, module_graph_nodes, declarations,
          usages, replace_table, internal_graph, internal_nodes, limit, exclude,
          removed, out, pickle, new_replace_table, pf, stderr, libs, stack,
          library_files, cursor, bundles, top_module, manifest, options,
          internal_defines, bundle_at, results, syntax_trees, parse_log, pc, err, last>>

pickle_fields == <<module_graph, module_graph_nodes, declarations, usages, replace_table>>
get_pickle_locals == <<internal_graph, internal_nodes, limit, exclude, removed>>
do_pickle_locals == <<pickle, new_replace_table, pf, stderr>>
resolver_locals == <<libs, stack, library_files, cursor>>
manifest_locals == <<bundles, top_module, manifest>>
parse_locals == <<options, internal_defines, bundle_at, results, syntax_trees, parse_log>>
\* The variables of the stages the actions of the pickle engine leave alone.
other_stages == <<resolver_locals, manifest_locals, parse_locals>>

\* The fields of a Pickle as one record.
Self == [module_graph |-> module_graph, module_graph_nodes |-> module_graph_nodes,
         declarations |-> declarations, usages |-> usages,
         replace_table |-> replace_table]

\* The files of a run that come as one bundle with the caller's include
\* directories and defines.
OneBundle(files) == <<[base |-> TRUE, files |-> [i \in DOMAIN files |-> i]]>>

\* The flags of a parse stage in which every file parses, one after the other.
NoOptions == [engine |-> "pickle", ignore_unparseable |-> FALSE,
              propagate_defines |-> FALSE, force_sequential |-> TRUE]

\* What every run starts with, whatever its input.
InitRest ==
    /\ all_files = <<>>
    /\ module_graph = NewGraph
    /\ module_graph_nodes = EmptyMap
    /\ declarations = EmptyMap
    /\ usages = EmptyMap
    /\ replace_table = <<>>
    /\ internal_graph = NewGraph
    /\ internal_nodes = EmptyMap
    /\ limit = 0
    /\ exclude = {}
    /\ removed = <<>>
    /\ out = <<>>
    /\ new_replace_table = <<>>
    /\ pf = 0
    /\ stderr = <<>>
    /\ libs = [some |-> FALSE, files |-> EmptyMap]
    /\ stack = <<>>
    /\ library_files = <<>>
    /\ cursor = 0
    /\ internal_defines = {}
    /\ bundle_at = 0
    /\ results = <<>>
    /\ syntax_trees = <<>>
    /\ parse_log = <<>>
    /\ top_module = None
    /\ manifest = [sources |-> <<>>, tops |-> <<>>, undefined |-> <<>>]
    /\ pc = "new"
    /\ err = None
    /\ last = [op |-> "new"]

\* Pickle::new of pickle.rs; do_pickle of lib.rs is not part of these runs.
Init ==
    /\ \E run \in Runs : file_list = run.files /\ caller = run.caller
    /\ pickle = LibNew(None, None, {}, {})
    /\ bundles = OneBundle(file_list)
    /\ options = NoOptions
    /\ InitRest

\* The fields of the Pickle after an operation left it as the record p.
SelfBecomes(p) ==
    /\ module_graph' = p.module_graph
    /\ module_graph_nodes' = p.module_graph_nodes
    /\ declarations' = p.declarations
    /\ usages' = p.usages
    /\ replace_table' = p.replace_table

\* Pickle::add_files: every file parses and is pushed in input order.
AddFiles ==
    /\ pc = "new"
    /\ all_files' = file_list
    /\ pc' = "parsed"
    /\ err' = None
    /\ last' = [op |-> "add_files"]
    /\ UNCHANGED <<do_pickle_locals, file_list, caller, other_stages, pickle_fields, get_pickle_locals, out>>

BuildGraph ==
    /\ pc = "parsed"
    /\ LET p == BuildGraphOf(Self @@ [err |-> None], all_files) IN
        /\ SelfBecomes(p)
        /\ err' = p.err
        /\ pc' = IF p.err = None THEN "built" ELSE "failed"
    /\ last' = [op |-> "build_graph"]
    /\ UNCHANGED <<do_pickle_locals, file_list, caller, other_stages, all_files, get_pickle_locals, out>>

PruneGraph ==
    /\ pc = "built"
    /\ caller.prunes
    /\ \E top \in Names :
        LET p == PruneGraphOf(Self @@ [err |-> None], top) IN
        /\ SelfBecomes(p)
        /\ err' = p.err
        /\ pc' = IF p.err = None THEN "pruned" ELSE "failed"
        /\ last' = [op |-> "prune_graph", top |-> top, pre |-> Self]
    /\ UNCHANGED <<do_pickle_locals, file_list, caller, other_stages, all_files, get_pickle_locals, out>>

Rename ==
    /\ pc \in {"built", "pruned"}
    /\ caller.renames
    /\ \E prefix \in Prefixes, suffix \in Suffixes, exclude_rename \in ExcludeRenames,
          order \in Orders(DOMAIN declarations) :
        LET p == RenameOf(Self @@ [err |-> None], all_files, order, prefix, suffix,
                          exclude_rename) IN
        /\ SelfBecomes(p)
        /\ err' = p.err
        /\ pc' = IF p.err = None THEN "renamed" ELSE "failed"
        /\ last' = [op |-> "rename", prefix |-> prefix, suffix |-> suffix,
                    exclude_rename |-> exclude_rename]
    /\ UNCHANGED <<do_pickle_locals, file_list, caller, other_stages, all_files, get_pickle_locals, out>>

Ready == {"built", "pruned", "renamed"}

\* One round fewer than there are nodes.
RoundLimitShort(nodes) == Cardinality(DOMAIN nodes) - 1

\* `let mut limit = internal_nodes.len()`
RoundLimit(nodes) == Cardinality(DOMAIN nodes)

\* get_pickle up to its loop: the banner, and the copy of the graph cut down to
\* the nodes whose name has a declaration.
GetPickleStart ==
    /\ pc \in Ready
    /\ \E ex \in Excludes :
        LET keeper_nodes == {module_graph_nodes[name] :
                                name \in DOMAIN module_graph_nodes \cap DOMAIN declarations}
            g == RetainNodes(module_graph, keeper_nodes)
        IN /\ internal_graph' = g
           /\ internal_nodes' = RefactorGraphNodes(g)
           /\ limit' = RoundLimit(RefactorGraphNodes(g))
           /\ exclude' = ex
    /\ removed' = <<>>
    /\ out' = Banner
    /\ pc' = "get_pickle"
    /\ err' = None
    /\ last' = [op |-> "get_pickle", before |-> last]
    /\ UNCHANGED <<do_pickle_locals, file_list, caller, other_stages, all_files, pickle_fields>>

\* The names no node left in the graph points to.
Roots == {name \in DOMAIN internal_nodes :
             InDegree(internal_graph, internal_nodes[name]) = 0}

\* The names the `for (name, node) in &internal_nodes` of a round may stop at.
Leaves == {name \in DOMAIN internal_nodes :
              OutDegree(internal_graph, internal_nodes[name]) = 0}

\* One round of the loop of get_pickle: the first node met that has no outgoing
\* edge is removed, and its declaration written unless it is excluded.
GetPickleRound ==
    /\ pc = "get_pickle"
    /\ DOMAIN internal_nodes # {}
    /\ limit # 0
    /\ limit' = limit - 1
    /\ IF Leaves = {}
       THEN UNCHANGED <<internal_graph, internal_nodes, removed, out, pc, err>>
       ELSE \E name \in Leaves :
            LET g == RemoveNode(internal_graph, internal_nodes[name])
                written == name \in DOMAIN declarations /\ name \notin exclude
                string == GetReplacedString(replace_table, all_files,
                              declarations[name].file, declarations[name].loc)
            IN /\ removed' = Append(removed, name)
               /\ IF written /\ ~string.ok
                  THEN /\ pc' = "failed" /\ err' = "panic"
                       /\ internal_graph' = g
                       /\ UNCHANGED <<internal_nodes, out>>
                  ELSE /\ internal_graph' = g
                       /\ internal_nodes' = RefactorGraphNodes(g)
                       /\ out' = IF written THEN Writeln(out, string.text) ELSE out
                       /\ UNCHANGED <<pc, err>>
    /\ UNCHANGED <<do_pickle_locals, file_list, caller, other_stages, all_files, pickle_fields, exclude, last>>

\* `if limit == 0` with nodes left: "loop not terminating"
GetPickleLimit ==
    /\ pc = "get_pickle"
    /\ DOMAIN internal_nodes # {}
    /\ limit = 0
    /\ pc' = "failed"
    /\ err' = "cyclic"
    /\ UNCHANGED <<do_pickle_locals, file_list, caller, other_stages, all_files, pickle_fields, get_pickle_locals, out, last>>

\* The loop of get_pickle ends with no node left: Ok(())
GetPickleReturn ==
    /\ pc = "get_pickle"
    /\ DOMAIN internal_nodes = {}
    /\ pc' = "done"
    /\ UNCHANGED <<do_pickle_locals, file_list, caller, other_stages, all_files, pickle_fields, get_pickle_locals, out,
                   err, last>>

RECURSIVE ClassicFrom(_, _, _, _)
\* `for i in 0..self.all_files.len()` of get_classic_pickle from file i on.
ClassicFrom(table, files, i, o) ==
    IF i > Len(files) \/ ~o.ok THEN o
    ELSE LET string == GetReplacedString(table, files, i, SourceLoc(files[i]))
         IN ClassicFrom(table, files, i + 1,
                IF string.ok THEN [ok |-> TRUE, text |-> Writeln(o.text, string.text)]
                ELSE [ok |-> FALSE, text |-> o.text])

\* Pickle::get_classic_pickle(out, _exclude): the exclude argument is taken and
\* not read.
GetClassicPickle ==
    /\ pc \in Ready
    /\ exclude' \in Excludes
    /\ LET o == ClassicFrom(replace_table, all_files, 1, [ok |-> TRUE, text |-> Banner])
       IN /\ out' = o.text
          /\ pc' = IF o.ok THEN "done" ELSE "failed"
          /\ err' = IF o.ok THEN None ELSE "panic"
    /\ last' = [op |-> "get_classic_pickle", before |-> last]
    /\ UNCHANGED <<do_pickle_locals, file_list, caller, other_stages, all_files, pickle_fields,
                   internal_graph, internal_nodes, limit, removed>>

Next ==
    \/ AddFiles
    \/ BuildGraph
    \/ PruneGraph
    \/ Rename
    \/ GetPickleStart
    \/ GetPickleRound
    \/ GetPickleLimit
    \/ GetPickleReturn
    \/ GetClassicPickle

Spec == Init /\ [][Next]_vars

\* ------------------------------------------------------------- get_pickle alone
\* The runs of a caller that builds the graph of one file, may prune it, and
\* calls get_pickle.
InitPickle ==
    /\ Init
    /\ Len(file_list) = 1
    /\ caller = [prunes |-> TRUE, renames |-> FALSE]

NextPickle ==
    \/ AddFiles
    \/ BuildGraph
    \/ PruneGraph
    \/ GetPickleStart
    \/ GetPickleRound
    \/ GetPickleLimit
    \/ GetPickleReturn

\* The loop of get_pickle is not left half-way.
SpecPickle ==
    /\ InitPickle
    /\ [][NextPickle]_vars
    /\ WF_vars(GetPickleRound \/ GetPickleLimit \/ GetPickleReturn)

\* ------------------------------------------------------------- lib.rs: do_pickle
\* The options do_pickle is called with.
LibOptions ==
    {LibNew(prefix, suffix, exclude_rename, exclude_set) :
        prefix \in Prefixes, suffix \in Suffixes,
        exclude_rename \in ExcludeRenames, exclude_set \in LibExcludes}

\* do_pickle is entered with the parsed files and a new Pickle.
InitLib ==
    /\ file_list \in TextInputs
    /\ caller = [prunes |-> FALSE, renames |-> FALSE]
    /\ pickle \in LibOptions
    /\ bundles = OneBundle(file_list)
    /\ options = NoOptions
    /\ InitRest

\* do_pickle up to its emit loop: the declarations, the instantiations, the
\* banner.
DoPickleGather ==
    /\ pc = "new"
    /\ LET sites == DeclSites(file_list)
           p == LibDeclarationsFrom(pickle, file_list, sites)
       IN pickle' = LibInstantiationsFrom(p, file_list, sites)
    /\ out' = Banner
    /\ pf' = 1
    /\ pc' = "emit"
    /\ last' = [op |-> "gather"]
    /\ UNCHANGED <<file_list, caller, other_stages, all_files, pickle_fields, get_pickle_locals,
                   new_replace_table, stderr, err>>

\* `top_module.is_some() && !needed_files.contains(&pf.path)`
Skipped(p, top, path) ==
    top # None /\ path \notin {p.module_file_map[n] : n \in DOMAIN p.module_file_map}

\* One round of `for pf in &syntax_trees`: the replacement table of the file
\* is filled and sorted, overlaps are reported, the file is written.  With an
\* empty table `new_replace_table.len() - 1` panics (or wraps, and the index
\* that follows panics).
DoPickleFile ==
    /\ pc = "emit"
    /\ pf <= Len(file_list)
    /\ ~Skipped(pickle, top_module, pf)
    /\ LET f == file_list[pf]
           p == LibPlanFrom([pickle EXCEPT !.replace_table = <<>>], f, 1)
           table == SortByOffset(p.replace_table)
           text == LibApply(Source(f), table, 0, <<>>)
       IN /\ pickle' = [p EXCEPT !.replace_table = <<>>]
          /\ new_replace_table' = table
          /\ IF table = <<>>
             THEN /\ pc' = "failed" /\ err' = "panic"
                  /\ UNCHANGED <<out, stderr, pf>>
             ELSE /\ stderr' = stderr \o [i \in 1..Cardinality(OffsetErrors(table)) |->
                                             "Offset error"]
                  /\ out' = out \o text
                               \o (IF EndsWithNL(Source(f)) THEN <<>> ELSE <<NL>>)
                  /\ pf' = pf + 1
                  /\ UNCHANGED <<pc, err>>
    /\ last' = [op |-> "file", pf |-> pf, out |-> out]
    /\ UNCHANGED <<file_list, caller, other_stages, all_files, pickle_fields, get_pickle_locals>>

\* Ok(pickle)
DoPickleReturn ==
    /\ pc = "emit"
    /\ pf > Len(file_list)
    /\ pc' = "done"
    /\ last' = [op |-> "do_pickle"]
    /\ UNCHANGED <<file_list, caller, other_stages, all_files, pickle_fields, get_pickle_locals,
                   pickle, new_replace_table, pf, stderr, out, err>>

NextLib ==
    \/ DoPickleGather
    \/ DoPickleFile
    \/ DoPickleReturn

SpecLib == InitLib /\ [][NextLib]_vars

\* ------------------------------------------------------------- lib.rs: library resolution
\* The names library files are stored under, and the modules they may hold.
LibNames == {"b", "c"}

\* A library file as the parser returns it: one module with its instantiations.
LibraryFiles ==
    {[decls |-> <<[kind |-> "Module", name |-> n, uses |-> u, nl |-> FALSE]>>] :
        n \in LibNames, u \in SeqsUpTo(LibNames, MaxLibUses)}

\* LibraryBundle.files: module name -> library file
LibraryMaps == UNION {[S -> LibraryFiles] : S \in SUBSET LibNames}

\* The instantiations of a file in the order the tree's iterator yields them,
\* each with the declaration that holds it (get_calling_module).
Instantiations(f) ==
    Concat([j \in DOMAIN f.decls |->
        [k \in DOMAIN f.decls[j].uses |->
            [inst |-> f.decls[j].uses[k], parent |-> f.decls[j].name]]])

\* The instantiations of the input files in the order of do_pickle's second loop.
InputInstantiations(files) == Concat([i \in DOMAIN files |-> Instantiations(files[i])])

\* The first half of load_library_module(module_name) when the library has the
\* module: load_module records the file in used_libs and parses it, and every
\* module declaration of the file is registered under the file's path.
LibLoadDeclarations(p, module_name) ==
    LET lib_file == p.libs[module_name]
        files == [x \in {module_name} |-> lib_file]
        modules == SelectSeq([j \in DOMAIN lib_file.decls |-> j],
                             LAMBDA j : lib_file.decls[j].kind = "Module")
    IN LibDeclarationsFrom([p EXCEPT !.used_libs = Append(@, module_name)], files,
                           [x \in DOMAIN modules |-> <<module_name, modules[x]>>])

\* A call load_library_module(module_name) up to its instantiation loop: nothing
\* happens when the library has no such module, the process dies when the call
\* stack is full, else the call gets a frame.
LoadLibraryModule(p, stk, module_name) ==
    IF module_name \notin DOMAIN p.libs
    THEN [pickle |-> p, stack |-> stk, overflow |-> FALSE]
    ELSE IF Len(stk) = MaxStack
    THEN [pickle |-> p, stack |-> stk, overflow |-> TRUE]
    ELSE [pickle |-> LibLoadDeclarations(p, module_name),
          stack |-> Append(stk, [module_name |-> module_name, k |-> 1,
                                 known |-> DOMAIN p.rename_table]),
          overflow |-> FALSE]

\* An instantiation met by find_and_register_instantiations or by
\* load_library_module: it is registered, and a name rename_table does not have
\* is looked for in the library.
MeetInstantiation(p, stk, x) ==
    LET p1 == LibRegisterInstantiation(p, x.inst, x.parent)
    IN IF x.inst \in DOMAIN p1.rename_table
       THEN [pickle |-> p1, stack |-> stk, overflow |-> FALSE]
       ELSE LoadLibraryModule(p1, stk, x.inst)

\* do_pickle is entered with one parsed file and a Pickle that has a library.
ResolveInputs ==
    {<<[decls |-> <<[kind |-> "Module", name |-> "a", uses |-> u, nl |-> FALSE]>>]>> :
        u \in SeqsUpTo(LibNames, MaxUses)}

ResolveOptions ==
    {[LibNew(None, None, exclude_rename, exclude_set) EXCEPT !.libs = l] :
        exclude_rename \in ExcludeRenames, exclude_set \in {{}, {"c"}},
        l \in LibraryMaps}

InitResolve ==
    /\ file_list \in ResolveInputs
    /\ caller = [prunes |-> FALSE, renames |-> FALSE]
    /\ pickle \in ResolveOptions
    /\ bundles = OneBundle(file_list)
    /\ options = NoOptions
    /\ InitRest

resolver_unchanged ==
    <<file_list, caller, all_files, pickle_fields, get_pickle_locals, new_replace_table,
      pf, stderr, libs, manifest_locals, parse_locals, out, err>>

\* The first loop of do_pickle: the declarations of the input files.
ResolveDeclarations ==
    /\ pc = "new"
    /\ pickle' = LibDeclarationsFrom(pickle, file_list, DeclSites(file_list))
    /\ cursor' = 1
    /\ pc' = "instantiations"
    /\ last' = [op |-> "declarations"]
    /\ UNCHANGED <<resolver_unchanged, stack, library_files>>

\* The second loop of do_pickle at its next instantiation.
ResolveInstantiation ==
    /\ pc = "instantiations"
    /\ stack = <<>>
    /\ cursor <= Len(InputInstantiations(file_list))
    /\ LET r == MeetInstantiation(pickle, stack, InputInstantiations(file_list)[cursor])
       IN /\ pickle' = r.pickle
          /\ stack' = r.stack
          /\ pc' = IF r.overflow THEN "overflow" ELSE pc
    /\ cursor' = cursor + 1
    /\ last' = [op |-> "instantiation"]
    /\ UNCHANGED <<resolver_unchanged, library_files>>

\* The innermost call of load_library_module at its next instantiation.
LoadStep ==
    /\ pc = "instantiations"
    /\ stack # <<>>
    /\ LET top == stack[Len(stack)]
           insts == Instantiations(pickle.libs[top.module_name])
       IN /\ top.k <= Len(insts)
          /\ LET r == MeetInstantiation(pickle,
                          [stack EXCEPT ![Len(stack)].k = top.k + 1], insts[top.k])
             IN /\ pickle' = r.pickle
                /\ stack' = r.stack
                /\ pc' = IF r.overflow THEN "overflow" ELSE pc
    /\ last' = [op |-> "load"]
    /\ UNCHANGED <<resolver_unchanged, library_files, cursor>>

\* The innermost call is through with its file: files.push(pf), and it returns.
LoadReturn ==
    /\ pc = "instantiations"
    /\ stack # <<>>
    /\ LET top == stack[Len(stack)]
       IN /\ top.k > Len(Instantiations(pickle.libs[top.module_name]))
          /\ library_files' = Append(library_files, top.module_name)
    /\ stack' = SubSeq(stack, 1, Len(stack) - 1)
    /\ last' = [op |-> "return"]
    /\ UNCHANGED <<resolver_unchanged, pickle, cursor, pc>>

\* The second loop of do_pickle is through.
ResolveReturn ==
    /\ pc = "instantiations"
    /\ stack = <<>>
    /\ cursor > Len(InputInstantiations(file_list))
    /\ pc' = "resolved"
    /\ last' = [op |-> "resolved"]
    /\ UNCHANGED <<resolver_unchanged, pickle, stack, library_files, cursor>>

NextResolve ==
    \/ ResolveDeclarations
    \/ ResolveInstantiation
    \/ LoadStep
    \/ LoadReturn
    \/ ResolveReturn

SpecResolve == InitResolve /\ [][NextResolve]_vars

\* ------------------------------------------------------------- pickle.rs: a library attached
\* Pickle::new of pickle.rs with one input file whose module uses library names.
InitLibs ==
    /\ file_list \in ResolveInputs
    /\ caller = [prunes |-> FALSE, renames |-> FALSE]
    /\ pickle = LibNew(None, None, {}, {})
    /\ bundles = OneBundle(file_list)
    /\ options = NoOptions
    /\ InitRest

\* Pickle::add_libs: the bundle is stored, and nothing else happens.
AddLibs ==
    /\ pc = "new"
    /\ ~libs.some
    /\ \E l \in LibraryMaps : libs' = [some |-> TRUE, files |-> l]
    /\ last' = [op |-> "add_libs"]
    /\ UNCHANGED <<do_pickle_locals, file_list, caller, stack, library_files, cursor,
                   manifest_locals, parse_locals, all_files, pickle_fields,
                   get_pickle_locals, out, pc, err>>

NextLibs ==
    \/ AddLibs
    \/ AddFiles
    \/ BuildGraph

SpecLibs == InitLibs /\ [][NextLibs]_vars

\* ------------------------------------------------------------- pickle.rs: the manifest
\* The declarations of the inputs of the manifest: modules a and b that may
\* instantiate each other, themselves, or c, which nothing declares.
ManifestDecls ==
    {[kind |-> "Module", name |-> n, uses |-> u, nl |-> FALSE] :
        n \in {"a", "b"}, u \in SeqsUpTo({"a", "b", "c"}, 1)}

\* Two input files; either may declare nothing.
ManifestFiles ==
    UNION {{<<[decls |-> SubSeq(d, 1, k)], [decls |-> SubSeq(d, k + 1, Len(d))]>>
               : k \in 0..Len(d)}
           : d \in {x \in SeqsUpTo(ManifestDecls, MaxManifestDecls) :
                       \A i, j \in DOMAIN x : x[i].name = x[j].name => i = j}}

\* The two files in one bundle or in two; `base` says that the bundle has the
\* include directories and the defines the caller passes to the manifest.
ManifestBundles ==
    {<<[base |-> x, files |-> <<1, 2>>]>> : x \in BOOLEAN}
    \cup {<<[base |-> x, files |-> <<1>>], [base |-> y, files |-> <<2>>]>> : x, y \in BOOLEAN}

InitManifest ==
    /\ file_list \in ManifestFiles
    /\ bundles \in ManifestBundles
    /\ options = NoOptions
    /\ caller = [prunes |-> TRUE, renames |-> FALSE]
    /\ pickle = LibNew(None, None, {}, {})
    /\ InitRest

\* `for module in self.module_graph_nodes.keys()`: the nodes without a declaration
ManifestUndefined(p) == DOMAIN p.module_graph_nodes \ DOMAIN p.declarations

\* A node is a top when no edge leaves it.
ManifestTopsOut(p) ==
    {name \in DOMAIN p.module_graph_nodes :
        OutDegree(p.module_graph, p.module_graph_nodes[name]) = 0}

\* `neighbors_directed(*node, Incoming).count() == 0`
ManifestTops(p) ==
    {name \in DOMAIN p.module_graph_nodes :
        InDegree(p.module_graph, p.module_graph_nodes[name]) = 0}

\* `needed_files`: the files of the declaration records
NeededFiles(p) == {p.declarations[m].file : m \in DOMAIN p.declarations}

\* Vec::retain(|v| keep.contains(v))
Retain(files, keep) == SelectSeq(files, LAMBDA v : v \in keep)

RECURSIVE ManifestSourcesFrom(_, _, _, _)
\* `for mut bundle in file_list` of get_manifest and the push of the base bundle
ManifestSourcesFrom(list, needed, base_files, sources) ==
    IF list = <<>>
    THEN IF base_files # <<>>
         THEN Append(sources, [base |-> TRUE, files |-> base_files])
         ELSE sources
    ELSE LET bundle == Head(list)
             files == Retain(bundle.files, needed)
         IN IF bundle.base
            THEN ManifestSourcesFrom(Tail(list), needed,
                     Retain(base_files \o bundle.files, needed), sources)
            ELSE ManifestSourcesFrom(Tail(list), needed, base_files,
                     IF files # <<>> THEN Append(sources, [bundle EXCEPT !.files = files])
                     ELSE sources)

\* Pickle::get_manifest; the two name arrays come in the order the HashMap is
\* iterated in.
GetManifest ==
    /\ pc \in {"built", "pruned", "done"}
    /\ \E tops \in Orders(ManifestTops(Self)), undefined \in Orders(ManifestUndefined(Self)) :
        manifest' = [sources |-> ManifestSourcesFrom(bundles, NeededFiles(Self), <<>>, <<>>),
                     tops |-> tops, undefined |-> undefined]
    /\ pc' = "manifest"
    /\ last' = [op |-> "get_manifest", before |-> last]
    /\ UNCHANGED <<do_pickle_locals, file_list, caller, resolver_locals, bundles, top_module,
                   parse_locals, all_files, pickle_fields, get_pickle_locals, out, err>>

NextManifest ==
    \/ AddFiles
    \/ BuildGraph
    \/ PruneGraph
    \/ GetPickleStart
    \/ GetPickleRound
    \/ GetPickleLimit
    \/ GetPickleReturn
    \/ GetManifest

SpecManifest == InitManifest /\ [][NextManifest]_vars

\* ------------------------------------------------------------- lib.rs: the manifest
\* Pickle::prune_graph of lib.rs: the nodes the top does not reach leave the
\* graph and the tables; module_graph_nodes keeps the indices it had.
LibPruneGraphOf(p, top) ==
    LET test_weights == Dijkstra(p.module_graph, p.module_graph_nodes[top])
        test_keys == {n \in DOMAIN p.module_graph_nodes :
                        p.module_graph_nodes[n] \in DOMAIN test_weights}
    IN [p EXCEPT !.module_graph = RetainNodes(@, DOMAIN test_weights),
                 !.module_graph_nodes = [n \in test_keys |-> @[n]],
                 !.module_file_map = [n \in DOMAIN @ \cap test_keys |-> @[n]],
                 !.inst_table = @ \cap test_keys,
                 !.rename_table = [n \in DOMAIN @ \cap test_keys |-> @[n]]]

WriteOptions ==
    {LibNew(prefix, None, exclude_rename, exclude_set) :
        prefix \in Prefixes, exclude_rename \in ExcludeRenames, exclude_set \in LibExcludes}

InitWrite ==
    /\ file_list \in ManifestFiles
    /\ bundles \in ManifestBundles
    /\ options = NoOptions
    /\ caller = [prunes |-> TRUE, renames |-> FALSE]
    /\ pickle \in WriteOptions
    /\ InitRest

\* do_pickle with a top module up to its emit loop: the declarations, the
\* instantiations, the banner, prune_graph(top).
DoPickleGatherTop ==
    /\ pc = "new"
    /\ \E top \in Names :
        LET sites == DeclSites(file_list)
            p == LibInstantiationsFrom(LibDeclarationsFrom(pickle, file_list, sites),
                                       file_list, sites)
        IN /\ top_module' = top
           /\ IF top \in DOMAIN p.module_graph_nodes
              THEN /\ pickle' = LibPruneGraphOf(p, top)
                   /\ pf' = 1
                   /\ pc' = "emit"
                   /\ err' = None
              ELSE /\ pickle' = p
                   /\ pc' = "failed"
                   /\ err' = "top_not_found"
                   /\ pf' = pf
    /\ out' = Banner
    /\ last' = [op |-> "gather"]
    /\ UNCHANGED <<file_list, caller, resolver_locals, bundles, manifest, parse_locals,
                   all_files, pickle_fields, get_pickle_locals, new_replace_table, stderr>>

\* A round of the emit loop at a file the top does not need: `continue`
DoPickleSkip ==
    /\ pc = "emit"
    /\ pf <= Len(file_list)
    /\ Skipped(pickle, top_module, pf)
    /\ pf' = pf + 1
    /\ last' = [op |-> "skip", pf |-> pf, out |-> out]
    /\ UNCHANGED <<file_list, caller, other_stages, all_files, pickle_fields, get_pickle_locals,
                   pickle, new_replace_table, stderr, out, pc, err>>

\* A name as the text the rename table holds for it.
NameText(n) == <<n>>

\* `for name in &pickle.inst_table`: the instantiated names rename_table lacks
WriteUndefined(p) == p.inst_table \ DOMAIN p.rename_table

\* `for new_name in pickle.rename_table.values()`: the new names that are not
\* the name of an instantiation
WriteTops(p) ==
    {new_name \in {p.rename_table[n] : n \in DOMAIN p.rename_table} :
        \A i \in p.inst_table : NameText(i) # new_name}

RECURSIVE WriteSourcesFrom(_, _, _, _, _)
\* `for mut bundle in file_list` of write_manifest, then the library files and
\* the push of the base bundle; with no top nothing is filtered.
WriteSourcesFrom(list, filter, pickled_files, base_files, sources) ==
    IF list = <<>> THEN [base_files |-> base_files, sources |-> sources]
    ELSE LET bundle == Head(list)
             files == IF filter THEN Retain(bundle.files, pickled_files) ELSE bundle.files
             base == IF filter THEN Retain(base_files \o bundle.files, pickled_files)
                     ELSE base_files \o bundle.files
         IN IF bundle.base
            THEN WriteSourcesFrom(Tail(list), filter, pickled_files, base, sources)
            ELSE WriteSourcesFrom(Tail(list), filter, pickled_files, base_files,
                     IF files # <<>> THEN Append(sources, [bundle EXCEPT !.files = files])
                     ELSE sources)

\* write_manifest on the Pickle do_pickle returned; `pickle.rename_table[x]`
\* panics when rename_table has no entry for the top.
WriteManifest ==
    /\ pc = "done"
    /\ last.op = "do_pickle"
    /\ IF top_module # None /\ top_module \notin DOMAIN pickle.rename_table
       THEN /\ pc' = "failed"
            /\ err' = "panic"
            /\ UNCHANGED manifest
       ELSE /\ pc' = "manifest"
            /\ err' = None
            /\ \E tops \in Orders(WriteTops(pickle)), undefined \in Orders(WriteUndefined(pickle)) :
                LET pickled_files == {pickle.module_file_map[n] : n \in DOMAIN pickle.module_file_map}
                    r == WriteSourcesFrom(bundles, top_module # None, pickled_files, <<>>, <<>>)
                    base_files == r.base_files \o pickle.used_libs
                IN manifest' =
                     [sources |-> IF base_files # <<>>
                                  THEN Append(r.sources, [base |-> TRUE, files |-> base_files])
                                  ELSE r.sources,
                      tops |-> IF top_module # None
                               THEN <<pickle.rename_table[top_module]>> ELSE tops,
                      undefined |-> undefined]
    /\ last' = [op |-> "write_manifest", before |-> last]
    /\ UNCHANGED <<file_list, caller, resolver_locals, bundles, top_module, parse_locals,
                   all_files, pickle_fields, get_pickle_locals, do_pickle_locals, out>>

NextWrite ==
    \/ DoPickleGather
    \/ DoPickleGatherTop
    \/ DoPickleFile
    \/ DoPickleSkip
    \/ DoPickleReturn
    \/ WriteManifest

SpecWrite == InitWrite /\ [][NextWrite]_vars

\* ------------------------------------------------------------- the parse stage
\* What a file is to the parser: it never parses (`broken`), or it parses when
\* the defines it needs are set, and then adds its own defines to them.
ParseKinds ==
    {[broken |-> TRUE, needs |-> {}, adds |-> {}],
     [broken |-> FALSE, needs |-> {}, adds |-> {}],
     [broken |-> FALSE, needs |-> {}, adds |-> {"X"}],
     [broken |-> FALSE, needs |-> {"X"}, adds |-> {}]}

\* The files 1..MaxParseFiles in two bundles with their defines.
ParseBundles ==
    {<<[defines |-> d1, files |-> [i \in 1..k |-> i]],
       [defines |-> d2, files |-> [i \in 1..(MaxParseFiles - k) |-> k + i]]>> :
        k \in 1..(MaxParseFiles - 1), d1 \in {{}, {"Y"}}, d2 \in {{}, {"X"}}}

\* add_files of pickle.rs has no force_sequential: it parses one file at a time.
ParseOptions ==
    {o \in [engine : {"lib", "pickle"}, ignore_unparseable : BOOLEAN,
            propagate_defines : BOOLEAN, force_sequential : BOOLEAN] :
        o.engine = "pickle" => o.force_sequential}

InitParse ==
    /\ file_list \in [1..MaxParseFiles -> ParseKinds]
    /\ bundles \in ParseBundles
    /\ options \in ParseOptions
    /\ caller = [prunes |-> FALSE, renames |-> FALSE]
    /\ pickle = LibNew(None, None, {}, {})
    /\ InitRest

\* parse_file: preprocess and parse_sv_pp with the defines given
ParseFile(path, defines) ==
    LET f == file_list[path]
    IN IF f.broken \/ ~(f.needs \subseteq defines)
       THEN [ok |-> FALSE, path |-> path, defines |-> {}]
       ELSE [ok |-> TRUE, path |-> path, defines |-> defines \cup f.adds]

\* The defines at the head of the bundle loop when they are dropped at each
\* bundle.
BundleDefinesReplaced(o, defines, bundle) == bundle.defines

\* `if propagate_defines { internal_defines.extend(..) } else { internal_defines = .. }`
BundleDefines(o, defines, bundle) ==
    IF o.propagate_defines THEN defines \cup bundle.defines ELSE bundle.defines

\* `if propagate_defines { internal_defines.extend(pf.defines) }`
FileDefines(o, defines, r) ==
    IF o.propagate_defines /\ r.ok THEN defines \cup r.defines ELSE defines

\* `force_sequential | propagate_defines`
Sequential(o) == o.force_sequential \/ o.propagate_defines

\* The positions of the bundle no parse has returned for.
Pending == {k \in DOMAIN results : results[k] = "pending"}

\* The files of the bundle as they come back from the workers.
CollectCompleted(bundle, res, log) ==
    LET paths == {bundle.files[k] : k \in {x \in DOMAIN res : res[x] = "ok"}}
    IN SelectSeq([i \in DOMAIN log |-> log[i].path], LAMBDA x : x \in paths)

\* `collect()` of the (parallel) iterator: the files that parsed, in the order
\* of the items.
Collect(bundle, res, log) ==
    LET oks == SelectSeq([k \in DOMAIN res |-> k], LAMBDA k : res[k] = "ok")
    IN [i \in DOMAIN oks |-> bundle.files[oks[i]]]

\* An error ends the stage in every case.
OnErrorStrict(o) == "return"

\* `if ignore_unparseable { filter_map(.. .ok()) } else { collect::<Result<..>>()? }`
OnError(o) == IF o.ignore_unparseable THEN "skip" ELSE "return"

\* `for bundle in file_list` of build_syntax_tree at its next bundle
BuildTreeBundle ==
    /\ options.engine = "lib"
    /\ pc \in {"new", "collected"}
    /\ bundle_at < Len(bundles)
    /\ bundle_at' = bundle_at + 1
    /\ internal_defines' = BundleDefines(options, internal_defines, bundles[bundle_at + 1])
    /\ results' = [k \in DOMAIN bundles[bundle_at + 1].files |-> "pending"]
    /\ pc' = "bundle"
    /\ last' = [op |-> "bundle"]
    /\ UNCHANGED <<do_pickle_locals, file_list, caller, resolver_locals, manifest_locals,
                   options, syntax_trees, parse_log, all_files, pickle_fields,
                   get_pickle_locals, out, err>>

\* The sequential branch: the iterator is pulled for the next file of the
\* bundle.
BuildTreeNext ==
    /\ options.engine = "lib"
    /\ pc = "bundle"
    /\ Sequential(options)
    /\ Pending # {}
    /\ LET k == CHOOSE x \in Pending : \A y \in Pending : x <= y
           r == ParseFile(bundles[bundle_at].files[k], internal_defines)
       IN /\ parse_log' = Append(parse_log, [path |-> r.path, ok |-> r.ok,
                                             defines |-> internal_defines])
          /\ internal_defines' = FileDefines(options, internal_defines, r)
          /\ results' = [results EXCEPT ![k] = IF r.ok THEN "ok" ELSE "err"]
          /\ pc' = IF ~r.ok /\ OnError(options) = "return" THEN "failed" ELSE pc
          /\ err' = IF ~r.ok /\ OnError(options) = "return" THEN "parse" ELSE err
          /\ last' = [op |-> "parse_file", path |-> r.path, ok |-> r.ok]
    /\ UNCHANGED <<do_pickle_locals, file_list, caller, resolver_locals, manifest_locals,
                   options, bundle_at, syntax_trees, all_files, pickle_fields,
                   get_pickle_locals, out>>

\* The parallel branch: the worker of some file of the bundle returns; the
\* first error a worker stores is the one `collect` returns.
BuildTreeWorker ==
    /\ options.engine = "lib"
    /\ pc = "bundle"
    /\ ~Sequential(options)
    /\ \E k \in Pending :
        LET r == ParseFile(bundles[bundle_at].files[k], internal_defines)
        IN /\ parse_log' = Append(parse_log, [path |-> r.path, ok |-> r.ok,
                                              defines |-> internal_defines])
           /\ results' = [results EXCEPT ![k] = IF r.ok THEN "ok" ELSE "err"]
           /\ pc' = IF ~r.ok /\ OnError(options) = "return" THEN "failed" ELSE pc
           /\ err' = IF ~r.ok /\ OnError(options) = "return" THEN "parse" ELSE err
           /\ last' = [op |-> "parse_file", path |-> r.path, ok |-> r.ok]
    /\ UNCHANGED <<do_pickle_locals, file_list, caller, resolver_locals, manifest_locals,
                   options, internal_defines, bundle_at, syntax_trees, all_files,
                   pickle_fields, get_pickle_locals, out>>

\* `syntax_trees.extend(v)`
BuildTreeCollect ==
    /\ options.engine = "lib"
    /\ pc = "bundle"
    /\ Pending = {}
    /\ syntax_trees' = syntax_trees \o Collect(bundles[bundle_at], results, parse_log)
    /\ pc' = "collected"
    /\ last' = [op |-> "collect"]
    /\ UNCHANGED <<do_pickle_locals, file_list, caller, resolver_locals, manifest_locals,
                   options, internal_defines, bundle_at, results, parse_log, all_files,
                   pickle_fields, get_pickle_locals, out, err>>

\* Ok(syntax_trees)
BuildTreeReturn ==
    /\ options.engine = "lib"
    /\ pc = "collected"
    /\ bundle_at = Len(bundles)
    /\ pc' = "parsed"
    /\ last' = [op |-> "build_syntax_tree"]
    /\ UNCHANGED <<do_pickle_locals, file_list, caller, resolver_locals, manifest_locals,
                   parse_locals, all_files, pickle_fields, get_pickle_locals, out, err>>

\* `for bundle in file_list` of Pickle::add_files at its next bundle
AddFilesBundle ==
    /\ options.engine = "pickle"
    /\ pc = "new" \/ (pc = "bundle" /\ Pending = {})
    /\ bundle_at < Len(bundles)
    /\ bundle_at' = bundle_at + 1
    /\ internal_defines' = BundleDefines(options, internal_defines, bundles[bundle_at + 1])
    /\ results' = [k \in DOMAIN bundles[bundle_at + 1].files |-> "pending"]
    /\ pc' = "bundle"
    /\ last' = [op |-> "bundle"]
    /\ UNCHANGED <<do_pickle_locals, file_list, caller, resolver_locals, manifest_locals,
                   options, syntax_trees, parse_log, all_files, pickle_fields,
                   get_pickle_locals, out, err>>

\* Pickle::parse_file for the next file of the bundle: a file that parses is
\* pushed to all_files at once.
AddFilesNext ==
    /\ options.engine = "pickle"
    /\ pc = "bundle"
    /\ Pending # {}
    /\ LET k == CHOOSE x \in Pending : \A y \in Pending : x <= y
           r == ParseFile(bundles[bundle_at].files[k], internal_defines)
       IN /\ parse_log' = Append(parse_log, [path |-> r.path, ok |-> r.ok,
                                             defines |-> internal_defines])
          /\ all_files' = IF r.ok THEN Append(all_files, r.path) ELSE all_files
          /\ internal_defines' = FileDefines(options, internal_defines, r)
          /\ results' = [results EXCEPT ![k] = IF r.ok THEN "ok" ELSE "err"]
          /\ pc' = IF ~r.ok /\ OnError(options) = "return" THEN "failed" ELSE pc
          /\ err' = IF ~r.ok /\ OnError(options) = "return" THEN "parse" ELSE err
          /\ last' = [op |-> "parse_file", path |-> r.path, ok |-> r.ok]
    /\ UNCHANGED <<do_pickle_locals, file_list, caller, resolver_locals, manifest_locals,
                   options, bundle_at, syntax_trees, pickle_fields, get_pickle_locals, out>>

\* Ok(()) of add_files
AddFilesReturn ==
    /\ options.engine = "pickle"
    /\ pc = "bundle"
    /\ Pending = {}
    /\ bundle_at = Len(bundles)
    /\ pc' = "parsed"
    /\ last' = [op |-> "add_files"]
    /\ UNCHANGED <<do_pickle_locals, file_list, caller, resolver_locals, manifest_locals,
                   parse_locals, all_files, pickle_fields, get_pickle_locals, out, err>>

NextParse ==
    \/ BuildTreeBundle
    \/ BuildTreeNext
    \/ BuildTreeWorker
    \/ BuildTreeCollect
    \/ BuildTreeReturn
    \/ AddFilesBundle
    \/ AddFilesNext
    \/ AddFilesReturn

SpecParse == InitParse /\ [][NextParse]_vars

\* ------------------------------------------------------------- pickle.rs: infer_dot_star
PortNames == {"p", "q", "r"}

\* A port declaration node of the instantiated module: an AnsiPortDeclaration
\* names one port, a PortDeclaration (`input p, q;`) one port or more.
PortNodes ==
    {[ansi |-> TRUE, ids |-> <<x>>] : x \in PortNames}
    \cup {[ansi |-> FALSE, ids |-> ids] :
            ids \in {x \in SeqsUpTo(PortNames, MaxPortIds) :
                        x # <<>> /\ \A i, j \in DOMAIN x : x[i] = x[j] => i = j}}

\* The ports a sequence of port declaration nodes declares, in their order.
PortsOf(nodes) == Concat([i \in DOMAIN nodes |-> nodes[i].ids])

\* The port declarations of a module: of one style, no port declared twice.
PortLists ==
    {x \in SeqsUpTo(PortNodes, MaxPortNodes) :
        /\ \A i, j \in DOMAIN x : x[i].ansi = x[j].ansi
        /\ \A i, j \in DOMAIN PortsOf(x) : PortsOf(x)[i] = PortsOf(x)[j] => i = j}

\* A hierarchical instance: its connections are ordered, or named with the
\* ports connected by name and a `.*` or none.
HierInstances ==
    {[style |-> "ordered", named |-> <<>>, asterisk |-> FALSE]}
    \cup {[style |-> "named", named |-> n, asterisk |-> b] :
            n \in SeqsUpTo(PortNames, MaxNamed), b \in BOOLEAN}

\* One file with one module instantiation of the module `inst_name`, which a
\* file of the input declares or not.
DotStarInputs ==
    {<<[declared |-> d, ports |-> ports, instances |-> instances]>> :
        d \in BOOLEAN, ports \in PortLists,
        instances \in SeqsUpTo(HierInstances, MaxInstances) \ {<<>>}}

InitDotStar ==
    /\ file_list \in DotStarInputs
    /\ bundles = OneBundle(file_list)
    /\ options = NoOptions
    /\ caller = [prunes |-> FALSE, renames |-> FALSE]
    /\ pickle = LibNew(None, None, {}, {})
    /\ InitRest

\* The Locate of the `.*` of the k-th instance of the instantiation.
AsteriskLoc(k) == [offset |-> 10 * k, len |-> 2]

RECURSIVE TrimEndMatches(_)
\* str::trim_end_matches(", ")
TrimEndMatches(text) ==
    IF Len(text) >= 2 /\ SubSeq(text, Len(text) - 1, Len(text)) = <<",", " ">>
    THEN TrimEndMatches(SubSeq(text, 1, Len(text) - 2))
    ELSE text

\* Every port a port declaration node names.
AllPortIdentifiers(node) == node.ids

\* `unwrap_node!(p, PortIdentifier)`: the first port identifier of the node
PortIdentifier(node) == <<node.ids[1]>>

\* `all_port_of_module`: one name for each port declaration node
AllPortOfModule(nodes) == Concat([i \in DOMAIN nodes |-> PortIdentifier(nodes[i])])

\* `ports_string`: `.p(p), ` for every port not added already, then the trim
PortsString(all_port_of_module, already_added_ports) ==
    TrimEndMatches(Concat([i \in DOMAIN all_port_of_module |->
        IF all_port_of_module[i] \in Range(already_added_ports) THEN <<>>
        ELSE <<".", all_port_of_module[i], "(", all_port_of_module[i], ")", ",", " ">>]))

\* Pickle::infer_dot_star at the one ModuleInstantiation node of the file: the
\* first `.*` under the node, the first list of named connections under the
\* node, and the declaration record of the instantiated module.
InferDotStar ==
    /\ pc = "new"
    /\ LET f == file_list[1]
           asterisks == {k \in DOMAIN f.instances : f.instances[k].asterisk}
           lists == {k \in DOMAIN f.instances : f.instances[k].style = "named"}
           asterisk == CHOOSE k \in asterisks : \A j \in asterisks : k <= j
           list_of_ports_node == CHOOSE k \in lists : \A j \in lists : k <= j
       IN IF asterisks = {}
          THEN /\ pc' = "inferred"
               /\ UNCHANGED <<replace_table, err>>
          ELSE IF ~f.declared
          THEN /\ pc' = "failed"
               /\ err' = "panic"
               /\ UNCHANGED replace_table
          ELSE /\ replace_table' = Append(replace_table,
                      Edit(1, AsteriskLoc(asterisk),
                           PortsString(AllPortOfModule(f.ports),
                                       f.instances[list_of_ports_node].named)))
               /\ pc' = "inferred"
               /\ UNCHANGED err
    /\ last' = [op |-> "infer_dot_star"]
    /\ UNCHANGED <<do_pickle_locals, file_list, caller, other_stages, all_files, module_graph,
                   module_graph_nodes, declarations, usages, get_pickle_locals, out>>

NextDotStar == InferDotStar

SpecDotStar == InitDotStar /\ [][NextDotStar]_vars

\* ------------------------------------------------------------- pickle.rs: a planner operation called again
\* The runs of a caller that renames, and may call rename a second time.
InitTwice ==
    /\ file_list \in TextInputs
    /\ caller = [prunes |-> FALSE, renames |-> TRUE]
    /\ pickle = LibNew(None, None, {}, {})
    /\ bundles = OneBundle(file_list)
    /\ options = NoOptions
    /\ InitRest

\* Pickle::rename called again with the arguments of the call before it; `once`
\* keeps the table the first call left.
RenameAgain ==
    /\ pc = "renamed"
    /\ last.op = "rename"
    /\ "once" \notin DOMAIN last
    /\ \E order \in Orders(DOMAIN declarations) :
        LET p == RenameOf(Self @@ [err |-> None], all_files, order, last.prefix,
                          last.suffix, last.exclude_rename) IN
        /\ SelfBecomes(p)
        /\ err' = p.err
        /\ pc' = IF p.err = None THEN "renamed" ELSE "failed"
    /\ last' = [op |-> "rename", prefix |-> last.prefix, suffix |-> last.suffix,
                exclude_rename |-> last.exclude_rename, once |-> replace_table]
    /\ UNCHANGED <<do_pickle_locals, file_list, caller, other_stages, all_files, get_pickle_locals, out>>

NextTwice ==
    \/ AddFiles
    \/ BuildGraph
    \/ Rename
    \/ RenameAgain
    \/ GetClassicPickle

SpecTwice == InitTwice /\ [][NextTwice]_vars

\* ------------------------------------------------------------- pickle.rs: two runs on one input
(***************************************************************************)
(* build_graph fills the graph file by file and node by node, so a second  *)
(* run of the program on the same input reaches its emitter with the same  *)
(* graph, tables and options as the first.  What a run does not share with *)
(* the run before is the order its HashMaps are iterated in: every         *)
(* HashMap::new() draws new keys for its hasher.  `first` keeps what the    *)
(* first run wrote.                                                        *)
(***************************************************************************)
\* get_pickle of the second run, up to its loop
GetPickleAgain ==
    /\ pc = "done"
    /\ last.op = "get_pickle"
    /\ "first" \notin DOMAIN last
    /\ LET keeper_nodes == {module_graph_nodes[name] :
                               name \in DOMAIN module_graph_nodes \cap DOMAIN declarations}
           g == RetainNodes(module_graph, keeper_nodes)
       IN /\ internal_graph' = g
          /\ internal_nodes' = RefactorGraphNodes(g)
          /\ limit' = RoundLimit(RefactorGraphNodes(g))
    /\ removed' = <<>>
    /\ out' = Banner
    /\ pc' = "get_pickle"
    /\ err' = None
    /\ last' = [op |-> "get_pickle", before |-> last.before, first |-> out]
    /\ UNCHANGED <<do_pickle_locals, file_list, caller, other_stages, all_files, pickle_fields,
                   exclude>>

\* get_manifest of the second run
GetManifestAgain ==
    /\ pc = "manifest"
    /\ last.op = "get_manifest"
    /\ "first" \notin DOMAIN last
    /\ \E tops \in Orders(ManifestTops(Self)), undefined \in Orders(ManifestUndefined(Self)) :
        manifest' = [sources |-> ManifestSourcesFrom(bundles, NeededFiles(Self), <<>>, <<>>),
                     tops |-> tops, undefined |-> undefined]
    /\ last' = [op |-> "get_manifest", before |-> last.before, first |-> manifest]
    /\ UNCHANGED <<do_pickle_locals, file_list, caller, resolver_locals, bundles, top_module,
                   parse_locals, all_files, pickle_fields, get_pickle_locals, out, pc, err>>

NextRuns ==
    \/ AddFiles
    \/ BuildGraph
    \/ GetPickleStart
    \/ GetPickleRound
    \/ GetPickleLimit
    \/ GetPickleReturn
    \/ GetPickleAgain
    \/ GetManifest
    \/ GetManifestAgain

SpecRuns == InitPickle /\ [][NextRuns]_vars

\* ------------------------------------------------------------- pickle.rs: get_replaced_string alone
\* Files of declarations that use nothing and end without a line end.
EditFiles ==
    {f \in TextInputs :
        \A i \in DOMAIN f : \A j \in DOMAIN f[i].decls :
            f[i].decls[j].uses = <<>> /\ ~f[i].decls[j].nl}

\* The entries a planner operation may have pushed: a node of some file, the
\* text that replaces it.
EditEntries ==
    {Edit(file_id, [offset |-> offset, len |-> len], repl) :
        file_id \in 1..MaxFiles, offset \in 0..MaxEditOffset, len \in 1..MaxEditLen,
        repl \in {<<>>, <<"x">>}}

\* get_replaced_string is entered with the parsed files and a replacement
\* table; do_pickle with the parsed files and its options.
InitEdits ==
    /\ file_list \in EditFiles
    /\ all_files = file_list
    /\ replace_table \in SeqsUpTo(EditEntries, MaxEdits)
    /\ caller = [prunes |-> FALSE, renames |-> FALSE]
    /\ pickle \in {LibNew(None, None, exclude_rename, {}) : exclude_rename \in {{}, TextNames}}
    /\ bundles = OneBundle(file_list)
    /\ options = NoOptions
    /\ module_graph = NewGraph
    /\ module_graph_nodes = EmptyMap
    /\ declarations = EmptyMap
    /\ usages = EmptyMap
    /\ internal_graph = NewGraph
    /\ internal_nodes = EmptyMap
    /\ limit = 0
    /\ exclude = {}
    /\ removed = <<>>
    /\ out = <<>>
    /\ new_replace_table = <<>>
    /\ pf = 0
    /\ stderr = <<>>
    /\ libs = [some |-> FALSE, files |-> EmptyMap]
    /\ stack = <<>>
    /\ library_files = <<>>
    /\ cursor = 0
    /\ internal_defines = {}
    /\ bundle_at = 0
    /\ results = <<>>
    /\ syntax_trees = <<>>
    /\ parse_log = <<>>
    /\ top_module = None
    /\ manifest = [sources |-> <<>>, tops |-> <<>>, undefined |-> <<>>]
    /\ pc = "new"
    /\ err = None
    /\ last = [op |-> "new"]

\* The spans the emitters ask for: a declaration (get_pickle) or the whole
\* file (get_classic_pickle).
Spans(f) == {DeclLoc(f, j) : j \in DOMAIN f.decls} \cup {SourceLoc(f)}

\* A call of Pickle::get_replaced_string(file_id, location); what it returns is
\* kept in `out`.
GetReplacedStringCall ==
    /\ pc = "new"
    /\ \E file_id \in DOMAIN all_files :
        \E location \in Spans(all_files[file_id]) :
            LET string == GetReplacedString(replace_table, all_files, file_id, location)
            IN /\ out' = string.text
               /\ pc' = IF string.ok THEN "done" ELSE "failed"
               /\ err' = IF string.ok THEN None ELSE "panic"
               /\ last' = [op |-> "get_replaced_string", file_id |-> file_id,
                           location |-> location]
    /\ UNCHANGED <<do_pickle_locals, file_list, caller, other_stages, all_files, pickle_fields,
                   get_pickle_locals>>

NextEdits ==
    \/ GetReplacedStringCall
    \/ DoPickleGather
    \/ DoPickleFile
    \/ DoPickleReturn

SpecEdits == InitEdits /\ [][NextEdits]_vars

\* ------------------------------------------------------------- pickle.rs: build_graph with top-level imports
ImportedPackages == {"c", "d"}

\* The import declarations a file may have at its top level.
ImportLists ==
    SeqsUpTo({x \in SeqsUpTo(ImportedPackages, MaxImportItems) : x # <<>>}, MaxImports)

\* Graph inputs whose files have top-level package imports.
ImportInputs ==
    UNION {UNION {UNION {UNION {
        {[i \in DOMAIN files |-> [decls |-> files[i].decls, imports |-> imps[i]]]
            : imps \in [DOMAIN files -> ImportLists]}
        : files \in {FilesOf([j \in 1..n |-> [kind |-> KindOfName[ns[j]], name |-> ns[j],
                                             uses |-> us[j], nl |-> FALSE]], cut, 1)
                        : cut \in Cuts(n)}}
        : us \in UsesFor(n, MaxImportUses)}
        : ns \in {x \in [1..n -> Names] : Canonical(x)}}
        : n \in 1..MaxImportDecls}

InitGraph ==
    /\ file_list \in ImportInputs
    /\ caller = [prunes |-> TRUE, renames |-> FALSE]
    /\ pickle = LibNew(None, None, {}, {})
    /\ bundles = OneBundle(file_list)
    /\ options = NoOptions
    /\ InitRest

NextGraph ==
    \/ AddFiles
    \/ BuildGraph
    \/ PruneGraph

SpecGraph == InitGraph /\ [][NextGraph]_vars

\* ------------------------------------------------------------- prune_graph of pickle.rs and of lib.rs
\* The runs of a caller that prunes: build_graph and prune_graph of pickle.rs,
\* once or twice, or do_pickle of lib.rs with a top module.
InitPrune ==
    /\ file_list \in GraphInputs
    /\ Len(file_list) = 1
    /\ caller = [prunes |-> TRUE, renames |-> FALSE]
    /\ pickle = LibNew(None, None, {}, {})
    /\ bundles = OneBundle(file_list)
    /\ options = NoOptions
    /\ InitRest

\* Pickle::prune_graph called on the graph an earlier prune_graph left; `first`
\* keeps the earlier call.
PruneGraphAgain ==
    /\ pc = "pruned"
    /\ last.op = "prune_graph"
    /\ "first" \notin DOMAIN last
    /\ \E top \in Names :
        LET p == PruneGraphOf(Self @@ [err |-> None], top) IN
        /\ SelfBecomes(p)
        /\ err' = p.err
        /\ pc' = IF p.err = None THEN "pruned" ELSE "failed"
        /\ last' = [op |-> "prune_graph", top |-> top, pre |-> Self, first |-> last]
    /\ UNCHANGED <<do_pickle_locals, file_list, caller, other_stages, all_files, get_pickle_locals, out>>

NextPrune ==
    \/ AddFiles
    \/ BuildGraph
    \/ PruneGraph
    \/ PruneGraphAgain
    \/ DoPickleGatherTop

SpecPrune == InitPrune /\ [][NextPrune]_vars

\* ------------------------------------------------------------- the input, read directly
\* The names the files declare and the names they use.
DeclaredNames(files) == {files[s[1]].decls[s[2]].name : s \in {DeclSites(files)[x] : x \in 1..Len(DeclSites(files))}}
UsedNames(files) ==
    UNION {{files[i].decls[j].uses[k] : k \in 1..Len(files[i].decls[j].uses)}
              : <<i, j>> \in {DeclSites(files)[x] : x \in 1..Len(DeclSites(files))}}

\* The edges of a graph by name.
NamedEdges(g) == {<<g.nodes[p[1]], g.nodes[p[2]]>> : p \in DOMAIN g.edges}
NodeNames(g) == {g.nodes[i] : i \in NodeIndices(g)}

RECURSIVE Closure(_, _)
\* The names a set of names reaches along the edges E, the set included.
Closure(E, S) ==
    LET T == S \cup {e[2] : e \in {x \in E : x[1] \in S}}
    IN IF T = S THEN S ELSE Closure(E, T)

PrunedOk == last.op = "prune_graph" /\ err = None

\* ------------------------------------------------------------- claims
\* C1: after prune_graph(T) returns Ok the names left in the graph and in the
\* name -> node-index map are exactly the names T reaches along outgoing edges of
\* the graph before the call, T included, and every edge the old graph had between
\* two surviving names is still there.
C1_PruneKeepsReachable ==
    PrunedOk =>
        LET E == NamedEdges(last.pre.module_graph)
            R == Closure(E, {last.top})
        IN /\ NodeNames(module_graph) = R
           /\ DOMAIN module_graph_nodes = R
           /\ {e \in E : e[1] \in R /\ e[2] \in R} \subseteq NamedEdges(module_graph)

\* A prune that removed a node and kept a name two edges away from the top.
C1_Witness ==
    /\ PrunedOk
    /\ Len(module_graph.nodes) < Len(last.pre.module_graph.nodes)
    /\ \E m \in Names \ {last.top} :
          /\ <<last.top, m>> \in NamedEdges(module_graph)
          /\ \E n \in Names \ {last.top, m} : <<m, n>> \in NamedEdges(module_graph)

\* C2: after prune_graph(T) every name T does not reach is gone from the
\* declarations and the usages tables too.
C2_PruneDropsDeclarations ==
    PrunedOk =>
        LET R == Closure(NamedEdges(last.pre.module_graph), {last.top})
        IN /\ DOMAIN declarations \subseteq R
           /\ DOMAIN usages \subseteq R

\* C3: prune_graph(T) for a T that has no node returns the top-not-found error
\* and changes nothing, and a T that has a node does not raise it; before any
\* pruning the names without a node are those neither declared nor used, so a T
\* that is used but not declared counts as present.
C3_PruneTopNotFound ==
    last.op = "prune_graph" =>
        LET mentioned == DeclaredNames(all_files) \cup UsedNames(all_files) IN
        /\ IF last.top \in NodeNames(last.pre.module_graph)
           THEN err = None
           ELSE err = "top_not_found" /\ Self = last.pre
        /\ Len(last.pre.module_graph.nodes) = Cardinality(mentioned)
              => (err = "top_not_found" <=> last.top \notin mentioned)

\* prune_graph failed for a name the files never mention.
C3_Witness ==
    /\ last.op = "prune_graph"
    /\ err = "top_not_found"
    /\ last.top \notin DeclaredNames(all_files) \cup UsedNames(all_files)
    /\ Len(module_graph.nodes) >= 2

\* C6: build_graph fails with the duplicate-declaration error whenever two
\* declarations have the same name, whatever their kinds and files; otherwise
\* every declared name has one record, that of its declaration.
C6_DuplicateDeclaration ==
    last.op = "build_graph" =>
        LET sites == {DeclSites(all_files)[x] : x \in 1..Len(DeclSites(all_files))}
            nameAt(s) == all_files[s[1]].decls[s[2]].name
        IN IF \E s, t \in sites : s # t /\ nameAt(s) = nameAt(t)
           THEN err = "duplicate" /\ pc = "failed"
           ELSE /\ err = None
                /\ DOMAIN declarations = {nameAt(s) : s \in sites}
                /\ \A s \in sites :
                      declarations[nameAt(s)] =
                          [kind |-> all_files[s[1]].decls[s[2]].kind, file |-> s[1],
                           loc |-> DeclLoc(all_files[s[1]], s[2])]

\* build_graph refused a name declared as two kinds in two files.
C6_Witness ==
    /\ last.op = "build_graph"
    /\ err = "duplicate"
    /\ \E i, j \in 1..Len(all_files) :
          /\ i # j
          /\ all_files[i].decls[1].name = all_files[j].decls[1].name
          /\ all_files[i].decls[1].kind # all_files[j].decls[1].kind

\* ------------------------------------------------------------- the output, read directly
\* The names that are in the graph and have a declaration record.
DeclaredInGraph == DOMAIN module_graph_nodes \cap DOMAIN declarations

\* The edges between two such names.
InducedEdges ==
    {e \in NamedEdges(module_graph) : e[1] \in DeclaredInGraph /\ e[2] \in DeclaredInGraph}

\* Some edge of E closes a directed cycle (an edge from a name to itself does).
HasCycle(E) == \E e \in E : e[1] \in Closure(E, {e[2]})

\* The position of x in a sequence that holds it.
Index(seq, x) == CHOOSE i \in DOMAIN seq : seq[i] = x

\* The bytes from..to-1 of file file_id, each byte an edit of the table starts at
\* replaced by the edit's text (every edit of rename covers one byte).
Patched(table, files, file_id, from, to) ==
    Concat([x \in 1..(to - from) |->
        LET at == from + x - 1
            hits == {i \in DOMAIN table : table[i].file = file_id /\ table[i].offset = at}
        IN IF hits = {} THEN <<Source(files[file_id])[at + 1]>>
           ELSE table[CHOOSE i \in hits : TRUE].repl])

\* What get_pickle writes for the declaration of a name.
DeclarationOut(name) ==
    LET d == declarations[name]
        raw == Slice(Source(all_files[d.file]), d.loc.offset, d.loc.offset + d.loc.len)
    IN Patched(replace_table, all_files, d.file, d.loc.offset, d.loc.offset + d.loc.len)
          \o (IF EndsWithNL(raw) THEN <<>> ELSE <<NL>>) \o <<NL>>

\* C4: when the declared names of the graph form an acyclic graph, get_pickle
\* returns Ok having removed every such name exactly once, the child of every
\* edge between two of them before the parent; what it wrote is the banner and
\* then the declarations of the removed names that are not excluded, in the
\* order of removal, so that an excluded declaration is left out and the others
\* keep their order.
C4_TopologicalOrder ==
    (last.op = "get_pickle" /\ pc \in {"done", "failed"} /\ ~HasCycle(InducedEdges)) =>
        LET Kept(n) == n \notin exclude
            written == SelectSeq(removed, Kept)
        IN /\ pc = "done"
           /\ Len(removed) = Cardinality(DeclaredInGraph)
           /\ {removed[i] : i \in DOMAIN removed} = DeclaredInGraph
           /\ \A e \in InducedEdges : Index(removed, e[2]) < Index(removed, e[1])
           /\ out = Banner \o Concat([i \in DOMAIN written |-> DeclarationOut(written[i])])

\* get_pickle returned Ok for three declarations, two edges between them, one
\* of the declarations excluded.
C4_Witness ==
    /\ last.op = "get_pickle" /\ pc = "done"
    /\ Len(removed) = 3
    /\ Cardinality(InducedEdges) >= 2
    /\ \E i \in DOMAIN removed : removed[i] \in exclude

\* What holds of get_pickle in every state: it fails only with the cyclic
\* dependency error and exactly when the declared names of the graph have a
\* cycle, and on an acyclic graph a round that finds nodes left has rounds left.
C5_Rounds ==
    last.op = "get_pickle" =>
        /\ pc = "failed" => err = "cyclic" /\ HasCycle(InducedEdges)
        /\ pc = "done" => err = None /\ ~HasCycle(InducedEdges)
        /\ pc = "get_pickle" =>
            /\ limit >= 0 /\ limit <= Cardinality(DeclaredInGraph)
            /\ (~HasCycle(InducedEdges) /\ DOMAIN internal_nodes # {}) => limit > 0

\* C5: get_pickle always terminates; it returns the cyclic dependency error if
\* and only if the declared names of the graph have a directed cycle (a name that
\* uses itself included), whatever edges lead to names without a declaration,
\* and on an acyclic graph the round limit is not used up while nodes are left.
C5_GetPickleTerminates ==
    /\ [](C5_Rounds)
    /\ (pc = "get_pickle") ~> (pc \in {"done", "failed"})

\* get_pickle failed on a cycle after it had removed a name, in a graph that
\* has an edge to a name without a declaration.
C5_Witness ==
    /\ last.op = "get_pickle" /\ pc = "failed" /\ err = "cyclic"
    /\ removed # <<>>
    /\ NodeNames(module_graph) \ DOMAIN declarations # {}

\* Every edit of the table writes the bytes it replaces.
IdentityEdits ==
    \A i \in DOMAIN replace_table :
        LET r == replace_table[i] IN
        r.repl = Slice(Source(all_files[r.file]), r.offset, r.offset + r.len)

\* C9: with nothing renamed get_classic_pickle writes the banner and then every
\* file's bytes in input order, a newline added to a file only when it does not
\* end with one.
C9_ClassicIdentity ==
    (last.op = "get_classic_pickle" /\ IdentityEdits) =>
        out = Banner \o Concat([i \in DOMAIN all_files |->
                  Source(all_files[i])
                      \o (IF EndsWithNL(Source(all_files[i])) THEN <<>> ELSE <<NL>>)])

\* prefix ++ name ++ suffix
Renamed(name, prefix, suffix) ==
    LET pre == IF prefix = None THEN <<>> ELSE <<prefix>>
        suf == IF suffix = None THEN <<>> ELSE <<suffix>>
    IN pre \o <<name>> \o suf

\* The edits the arguments of a rename call for, from the files themselves.
ExpectedEdits(files, prefix, suffix, exclude_rename) ==
    LET renamed == DeclaredNames(files) \ exclude_rename
        sites == {DeclSites(files)[x] : x \in DOMAIN DeclSites(files)}
        At(i, loc, name) == [file |-> i, offset |-> loc.offset, len |-> loc.len,
                             repl |-> Renamed(name, prefix, suffix)]
    IN {At(s[1], DeclIdent(files[s[1]], s[2]), files[s[1]].decls[s[2]].name) :
            s \in {t \in sites : files[t[1]].decls[t[2]].name \in renamed}}
       \cup UNION {{At(s[1], UseIdent(files[s[1]], s[2], k), files[s[1]].decls[s[2]].uses[k]) :
                      k \in {x \in DOMAIN files[s[1]].decls[s[2]].uses :
                                files[s[1]].decls[s[2]].uses[x] \in renamed}}
                   : s \in sites}

\* The text of a file with every token that names a declaration not excluded
\* from renaming replaced by the new name.
RenamedSource(f, renamed, prefix, suffix) ==
    LET New(n) == IF n \in renamed THEN Renamed(n, prefix, suffix) ELSE <<n>>
        Uses(us) == Concat([k \in DOMAIN us |-> New(us[k]) \o <<";">>])
    IN Concat([j \in DOMAIN f.decls |->
           <<KindChar[f.decls[j].kind]>> \o New(f.decls[j].name) \o Uses(f.decls[j].uses)
               \o <<"E">> \o (IF f.decls[j].nl THEN <<NL>> ELSE <<>>)])

RECURSIVE StripNL(_)
\* A text without its newlines.
StripNL(text) ==
    IF text = <<>> THEN <<>>
    ELSE (IF Head(text) = NL THEN <<>> ELSE <<Head(text)>>) \o StripNL(Tail(text))

\* C10: rename adds exactly one edit at the identifier of every declaration
\* whose name is not in exclude_rename and one at every usage of such a name,
\* each with the text prefix ++ name ++ suffix, and no other edit; in the text
\* written afterwards every token of such a name is the new name and every token
\* of a name in exclude_rename or without a declaration is as it was.
C10_RenameEdits ==
    /\ (last.op = "rename" /\ err = None) =>
          LET expected == ExpectedEdits(all_files, last.prefix, last.suffix,
                                        last.exclude_rename)
          IN /\ Len(replace_table) = Cardinality(expected)
             /\ {replace_table[i] : i \in DOMAIN replace_table} = expected
    /\ (last.op = "get_classic_pickle" /\ last.before.op = "rename") =>
          LET r == last.before
              renamed == DeclaredNames(all_files) \ r.exclude_rename
          IN /\ pc = "done"
             /\ StripNL(out) = StripNL(Banner \o Concat([i \in DOMAIN all_files |->
                    RenamedSource(all_files[i], renamed, r.prefix, r.suffix)]))

\* A rename with a prefix and a suffix that left out a declared and used name
\* in exclude_rename, renamed another, and met a usage of an undeclared name.
C10_Witness ==
    /\ last.op = "get_classic_pickle" /\ last.before.op = "rename"
    /\ last.before.prefix # None /\ last.before.suffix # None
    /\ "b" \in last.before.exclude_rename
    /\ "b" \in DeclaredNames(all_files) \cap UsedNames(all_files)
    /\ UsedNames(all_files) \ DeclaredNames(all_files) # {}
    /\ Len(replace_table) = 1

\* The edits of replace_table that belong to a file, sorted by offset.
EditsOfFile(table, file_id) ==
    LET InFile(x) == x.file = file_id IN SortByOffset(SelectSeq(table, InFile))

\* C7: the edits planned for a file, sorted by offset, never overlap: those of
\* replace_table of pickle.rs file by file, and those of the table do_pickle
\* sorts for the file it writes.
C7_EditsNeverOverlap ==
    /\ \A i \in DOMAIN all_files : ~Overlapping(EditsOfFile(replace_table, i))
    /\ ~Overlapping(new_replace_table)

\* C8: when the sorted edits of the file do_pickle is at overlap, do_pickle
\* stops with an error and has written nothing of the file.
C8_OverlapIsFatal ==
    (last.op = "file" /\ Overlapping(new_replace_table)) =>
        pc = "failed" /\ out = last.out

\* A call of load_library_module that is open twice with the same module name
\* and the same names in rename_table: the second goes the way of the first, and
\* neither returns.
Recursing ==
    \E i, j \in DOMAIN stack :
        /\ i < j
        /\ stack[i].module_name = stack[j].module_name
        /\ stack[i].known = stack[j].known

\* C12: the library resolver terminates: whatever the library map, the exclude
\* and the exclude-rename sets are, no call of load_library_module repeats a
\* call that is still open, and the call stack never runs full.
C12_ResolverTerminates == ~Recursing /\ pc # "overflow"

\* The call stack runs full only on a recursion that does not end.
OverflowIsRecursion == pc = "overflow" => Recursing

\* C11: library closure: after build_graph has run with a library map attached,
\* every used name that has an entry in the library map has a declaration record.
C11_LibraryClosure ==
    (pc = "built" /\ libs.some) =>
        \A n \in UsedNames(all_files) \cap DOMAIN libs.files : n \in DOMAIN declarations

\* A top module was asked for before the manifest was written.
TopGiven ==
    \/ top_module # None
    \/ /\ last.op = "get_manifest"
       /\ \/ last.before.op = "prune_graph"
          \/ last.before.op = "get_pickle" /\ last.before.before.op = "prune_graph"

\* The files the sources of a manifest list.
SourceFiles(m) ==
    UNION {{m.sources[i].files[k] : k \in DOMAIN m.sources[i].files} : i \in DOMAIN m.sources}

\* The bundle b is found in the sources with its files as they were.
Appears(b, m) ==
    \E j \in DOMAIN m.sources :
        /\ m.sources[j].base = b.base
        /\ \E k \in 0..(Len(m.sources[j].files) - Len(b.files)) :
               SubSeq(m.sources[j].files, k + 1, k + Len(b.files)) = b.files

\* The files that hold a declaration of a name the graph still has.
SurvivingFiles ==
    {s[1] : s \in {x \in {DeclSites(file_list)[i] : i \in DOMAIN DeclSites(file_list)} :
                      file_list[x[1]].decls[x[2]].name \in DOMAIN module_graph_nodes}}

\* C15: with no top, every input bundle is in the sources of the manifest with
\* its files unchanged, a file that declares nothing included; with a top, the
\* sources list exactly the files that hold a surviving declaration.
C15_ManifestSources ==
    (pc = "manifest" /\ last.op = "get_manifest") =>
        IF TopGiven
        THEN SourceFiles(manifest) = SurvivingFiles
        ELSE \A i \in DOMAIN bundles : Appears(bundles[i], manifest)

\* The manifest was written after get_pickle returned Ok.
ManifestOfOutput ==
    pc = "manifest" /\ last.op = "get_manifest" /\ last.before.op = "get_pickle"

\* The tops of the manifest and every node reached from one of them.
ManifestClosure == Closure(NamedEdges(module_graph), Range(manifest.tops))

\* The names whose declaration get_pickle wrote.
WrittenNames == Range(removed) \ exclude

\* C16 as stated: the tops of the manifest and the nodes reached from them are
\* exactly the declared names that appear in the output.
C16_ClosureIsOutput == ManifestOfOutput => ManifestClosure = WrittenNames

\* C16: when get_pickle returned Ok, the tops of the manifest and the nodes
\* reached from them are exactly the names whose declaration is in the output,
\* the declared names left out by `exclude`, and the undefined names of the
\* manifest.
C16_ManifestClosure ==
    ManifestOfOutput =>
        ManifestClosure = WrittenNames \cup (Range(removed) \cap exclude)
                              \cup Range(manifest.undefined)

\* A pruned graph with an edge to an undefined name was written and described.
C16_Witness ==
    /\ ManifestOfOutput
    /\ last.before.before.op = "prune_graph"
    /\ Range(manifest.undefined) # {}
    /\ WrittenNames # {}
    /\ Range(manifest.tops) # ManifestClosure

\* write_manifest returned a manifest.
ManifestWritten == pc = "manifest" /\ last.op = "write_manifest"

\* C13: the `undefined` array of the manifest holds exactly the names that are
\* instantiated and that no input declares, whatever the exclude and the
\* exclude-rename sets are; a declared name is never in it.
C13_Undefined ==
    ManifestWritten =>
        Range(manifest.undefined) = pickle.inst_table \ DeclaredNames(file_list)

\* The name the output has for the node n.
NewNameOf(p, n) == IF n \in DOMAIN p.rename_table THEN p.rename_table[n] ELSE NameText(n)

\* C14: the `tops` array of the manifest holds exactly the names of the nodes
\* without an incoming edge in the graph as it is, whatever the prefix is, and
\* write_manifest does not fail when the top is in the exclude-rename set.
C14_Tops ==
    /\ ~(last.op = "write_manifest" /\ err = "panic")
    /\ ManifestWritten =>
           Range(manifest.tops) =
               {NewNameOf(pickle, pickle.module_graph.nodes[i]) :
                   i \in {j \in NodeIndices(pickle.module_graph) :
                             InDegree(pickle.module_graph, j) = 0}}

\* The files of the parse stage in the order of the input: bundle after
\* bundle, and file after file in a bundle.
InputOrder == Concat([i \in DOMAIN bundles |-> bundles[i].files])

\* The list of parsed files the parse stage hands on.
Parsed == IF options.engine = "lib" THEN syntax_trees ELSE all_files

\* The files some call of parse_file returned Ok for.
ParsedOk == {parse_log[i].path : i \in {x \in DOMAIN parse_log : parse_log[x].ok}}

\* C17: after the parse stage the parsed files are in the order of the input,
\* in whatever order the workers returned, also when files were skipped.
C17_InputOrder ==
    pc = "parsed" => Parsed = SelectSeq(InputOrder, LAMBDA path : path \in ParsedOk)

\* Workers returned in another order than the input's, a file was skipped, and
\* two files or more were collected.
C17_Witness ==
    /\ pc = "parsed"
    /\ ~Sequential(options)
    /\ options.ignore_unparseable
    /\ \E i, j \in DOMAIN parse_log : i < j /\ parse_log[i].path > parse_log[j].path
    /\ \E i \in DOMAIN parse_log : ~parse_log[i].ok
    /\ Len(Parsed) >= 2

\* The bundle a file is in.
BundleOf(path) == CHOOSE i \in DOMAIN bundles : path \in Range(bundles[i].files)

\* C18: with propagate_defines the files are parsed one at a time in input
\* order, each with every define the files before it added; without it each
\* file is parsed with exactly the defines of its bundle.
C18_Defines ==
    \A j \in DOMAIN parse_log :
        IF options.propagate_defines
        THEN /\ parse_log[j].path = InputOrder[j]
             /\ \A i \in 1..(j - 1) :
                    parse_log[i].ok =>
                        file_list[parse_log[i].path].adds \subseteq parse_log[j].defines
        ELSE parse_log[j].defines = bundles[BundleOf(parse_log[j].path)].defines

\* A define the first file added was handed to a file of the second bundle,
\* whose own defines do not have it.
C18_Witness ==
    /\ options.propagate_defines
    /\ Len(parse_log) = MaxParseFiles
    /\ parse_log[1].ok
    /\ file_list[1].adds = {"X"}
    /\ bundles[1].defines = {"Y"}
    /\ bundles[2].defines = {}
    /\ parse_log[MaxParseFiles].defines = {"X", "Y"}

\* The file at path does not parse: as the call that returned says, or, for a
\* file whose worker never returned, with the defines of its bundle.
Fails(path) ==
    IF \E i \in DOMAIN parse_log : parse_log[i].path = path
    THEN path \notin ParsedOk
    ELSE ~ParseFile(path, bundles[BundleOf(path)].defines).ok

\* Every file but the failing ones is in the list handed on.
AllOthersParsed ==
    /\ pc # "failed"
    /\ pc = "parsed" =>
          /\ {parse_log[i].path : i \in DOMAIN parse_log} = Range(InputOrder)
          /\ Parsed = SelectSeq(InputOrder, LAMBDA path : ~Fails(path))

\* C19 as stated: with ignore_unparseable a failing file is skipped and all
\* other files are handed on; without it the stage returns the error of the
\* first failing file of the input, and never Ok when a file fails.
C19_FirstError ==
    IF options.ignore_unparseable THEN AllOthersParsed
    ELSE /\ pc = "parsed" => \A i \in DOMAIN parse_log : parse_log[i].ok
         /\ pc = "failed" =>
               /\ ~last.ok
               /\ \A path \in Range(InputOrder) : path < last.path => ~Fails(path)

\* C19: with ignore_unparseable a failing file is skipped and all other files
\* are handed on; without it the stage never returns Ok when a file fails, and
\* the error it returns is that of a failing file of the first bundle that has
\* one, the first failing file when the files are parsed one at a time.
C19_ErrorHandling ==
    IF options.ignore_unparseable THEN AllOthersParsed
    ELSE /\ pc = "parsed" => \A i \in DOMAIN parse_log : parse_log[i].ok
         /\ pc = "failed" =>
               /\ ~last.ok
               /\ \A path \in Range(InputOrder) :
                      BundleOf(path) < BundleOf(last.path) => ~Fails(path)
               /\ (Sequential(options) \/ options.engine = "pickle") =>
                      \A path \in Range(InputOrder) : path < last.path => ~Fails(path)

\* Two files of the first bundle fail, their workers ran side by side, and the
\* stage returned the error of the second.
C19_Witness ==
    /\ ~options.ignore_unparseable
    /\ ~Sequential(options)
    /\ pc = "failed"
    /\ last.path = 2
    /\ Fails(1)
    /\ Fails(2)
    /\ syntax_trees = <<>>

\* The text the `.*` of the instance `inst` stands for: `.p(p)` for every
\* declared port the instance does not connect by name, joined by `, `.
RECURSIVE Joined(_)
Joined(ports) ==
    IF ports = <<>> THEN <<>>
    ELSE <<".", Head(ports), "(", Head(ports), ")">>
            \o (IF Tail(ports) = <<>> THEN <<>> ELSE <<",", " ">> \o Joined(Tail(ports)))

ExpectedPorts(f, inst) ==
    Joined(SelectSeq(PortsOf(f.ports), LAMBDA x : x \notin Range(inst.named)))

\* C20: infer_dot_star replaces the `.*` of every instance that has one by
\* `.p(p)` for each declared port of the instantiated module that the instance
\* does not connect by name, in declaration order, joined by `, `, and by the
\* empty text when no port is left.
C20_DotStar ==
    (pc # "new" /\ last.op = "infer_dot_star" /\ file_list[1].declared) =>
        LET f == file_list[1]
            asterisks == {k \in DOMAIN f.instances : f.instances[k].asterisk}
        IN /\ Len(replace_table) = Cardinality(asterisks)
           /\ \A k \in asterisks :
                 \E i \in DOMAIN replace_table :
                    /\ replace_table[i].offset = AsteriskLoc(k).offset
                    /\ replace_table[i].len = AsteriskLoc(k).len
                    /\ replace_table[i].repl = ExpectedPorts(f, f.instances[k])

\* What get_classic_pickle writes with the replacement table `table`.
ClassicOut(table) == ClassicFrom(table, all_files, 1, [ok |-> TRUE, text |-> Banner])

\* get_classic_pickle was called right after the second of two equal calls of
\* rename.
EmittedAfterSecondCall ==
    /\ last.op = "get_classic_pickle"
    /\ last.before.op = "rename"
    /\ "once" \in DOMAIN last.before

\* C21: rename is idempotent on its own edits: when it was called twice with the
\* same arguments, emission succeeds and writes what it writes after one call.
C21_Idempotent ==
    (EmittedAfterSecondCall /\ ClassicOut(last.before.once).ok) =>
        pc = "done" /\ out = ClassicOut(last.before.once).text

\* The text occurs in the output as a run of bytes.
Occurs(text, o) ==
    \E i \in 1..(Len(o) - Len(text) + 1) : SubSeq(o, i, i + Len(text) - 1) = text

\* The bytes of the whole-declaration span of a name, with the edits planned
\* inside it applied.
DeclarationBytes(name) ==
    LET d == declarations[name]
    IN Patched(replace_table, all_files, d.file, d.loc.offset, d.loc.offset + d.loc.len)

\* C22: when an emitter of pickle.rs returned Ok, the output has the bytes of no
\* declaration whose name is in the exclude set, under get_pickle and under
\* get_classic_pickle, and it has the bytes of every declaration that is in the
\* graph and not excluded.
C22_ExcludedLeftOut ==
    (pc = "done" /\ last.op \in {"get_pickle", "get_classic_pickle"}) =>
        \A name \in DOMAIN declarations :
            IF name \in exclude THEN ~Occurs(DeclarationBytes(name), out)
            ELSE name \in DOMAIN module_graph_nodes => Occurs(DeclarationBytes(name), out)

\* The second run of an operation has returned.
SecondRunOf(op) == last.op = op /\ "first" \in DOMAIN last

\* C23: two runs on the same input with the same options write the same: the
\* second get_pickle writes the declarations in the order the first wrote them
\* in, and the second manifest lists `tops` and `undefined` in the order of the
\* first.
C23_Deterministic ==
    /\ (SecondRunOf("get_pickle") /\ pc = "done") => out = last.first
    /\ (SecondRunOf("get_manifest") /\ pc = "manifest") =>
            /\ manifest.tops = last.first.tops
            /\ manifest.undefined = last.first.undefined

\* The edits of a file whose offset lies in [base, base + len) of a span, rebased
\* to the span.
EditsInSpan(table, file_id, location) ==
    LET InSpan(x) == /\ x.file = file_id
                     /\ x.offset >= location.offset
                     /\ x.offset < location.offset + location.len
        sel == SelectSeq(table, InSpan)
    IN [i \in 1..Len(sel) |-> [offset |-> sel[i].offset - location.offset,
                               len |-> sel[i].len, repl |-> sel[i].repl]]

\* What get_replaced_string returns when it works on the edits `selected`.
ReplacedWith(selected, files, file_id, location) ==
    LET replacements == SortByOffset(selected)
        needed_string == Slice(Source(files[file_id]), location.offset,
                               location.offset + location.len)
        applied == ApplyEdits(needed_string, replacements, 0, <<>>)
    IN IF Overlapping(replacements) \/ ~applied.ok THEN [ok |-> FALSE, text |-> <<>>]
       ELSE [ok |-> TRUE,
             text |-> IF EndsWithNL(needed_string) THEN applied.text
                      ELSE Append(applied.text, NL)]

\* C24: get_replaced_string works on exactly the edits of the file whose offset
\* lies in [base, base + len) of the span, the first byte of the span included:
\* what it returns is what these edits give.
C24_SelectsSpan ==
    last.op = "get_replaced_string" =>
        LET expected == ReplacedWith(EditsInSpan(replace_table, last.file_id, last.location),
                                     all_files, last.file_id, last.location)
        IN /\ (pc = "done") = expected.ok
           /\ out = expected.text

RECURSIVE Walk(_, _, _)
\* The text with each edit's range replaced by the edit's text, the edits in
\* the order of their offsets, and every other byte copied.
Walk(text, edits, pos) ==
    IF edits = <<>> THEN Slice(text, pos, Len(text))
    ELSE Slice(text, pos, Head(edits).offset) \o Head(edits).repl
            \o Walk(text, Tail(edits), Head(edits).offset + Head(edits).len)

\* Edits sorted by offset that lie inside a text of n bytes and do not overlap.
Disjoint(edits, n) ==
    /\ \A i \in DOMAIN edits : edits[i].offset + edits[i].len <= n
    /\ \A i \in 2..Len(edits) : edits[i - 1].offset + edits[i - 1].len <= edits[i].offset

\* A line end after a text that has none.
WithNL(text, raw) == IF EndsWithNL(raw) THEN text ELSE Append(text, NL)

\* C25: for every list of edits of a span that do not overlap, the empty list
\* and a list of one edit included, edit application succeeds and writes the
\* span with each edited range replaced and every other byte copied in order
\* (a line end added to a span that has none): in get_replaced_string, and in
\* the per-file emitter of do_pickle.
C25_EditApplication ==
    /\ last.op = "get_replaced_string" =>
        LET edits == SortByOffset(EditsInSpan(replace_table, last.file_id, last.location))
            raw == Slice(Source(all_files[last.file_id]), last.location.offset,
                         last.location.offset + last.location.len)
        IN Disjoint(edits, Len(raw)) =>
              pc = "done" /\ out = WithNL(Walk(raw, edits, 0), raw)
    /\ last.op = "file" =>
        LET raw == Source(file_list[last.pf])
        IN Disjoint(new_replace_table, Len(raw)) =>
              /\ pc # "failed"
              /\ out = last.out \o WithNL(Walk(raw, new_replace_table, 0), raw)

\* The names used inside the declarations named D, and the packages imported at
\* the top level of the files that hold a declaration named D.
UsedInside(files, D) ==
    UNION {Range(files[i].decls[j].uses) :
              <<i, j>> \in {s \in Range(DeclSites(files)) : files[s[1]].decls[s[2]].name = D}}

ImportedFor(files, D) ==
    UNION {UNION {Range(AllImported(Imports(files[i])[k])) : k \in DOMAIN Imports(files[i])} :
              i \in {s[1] : s \in {t \in Range(DeclSites(files)) :
                                      files[t[1]].decls[t[2]].name = D}}}

\* C26: after build_graph returned Ok the graph has an edge from D to N exactly
\* when D is declared and N is used inside D or is a package imported at the top
\* level of D's file, and between two nodes there is one edge at most.
C26_Edges ==
    (last.op = "build_graph" /\ pc = "built") =>
        /\ NamedEdges(module_graph) =
              {<<D, N>> \in Names \X Names :
                  /\ D \in DeclaredNames(all_files)
                  /\ N \in UsedInside(all_files, D) \cup ImportedFor(all_files, D)}
        /\ \A e \in DOMAIN module_graph.edges : module_graph.edges[e] = 1

\* C27: at every point of the graph construction of do_pickle no two nodes of
\* the graph have the same name, the node-index map has exactly the names of the
\* nodes, and every edge leads to the node the map holds for the name of its
\* target: the declaration of a name referenced earlier reuses the name's node.
C27_OneNodePerName ==
    LET g == pickle.module_graph IN
    /\ \A i, j \in NodeIndices(g) : g.nodes[i] = g.nodes[j] => i = j
    /\ DOMAIN pickle.module_graph_nodes = NodeNames(g)
    /\ \A e \in DOMAIN g.edges : pickle.module_graph_nodes[g.nodes[e[2]]] = e[2]

\* The node-index map has an entry for each node of the graph and no other, and
\* each entry leads to the node that carries the entry's name.
Consistent(g, nodes) ==
    /\ DOMAIN nodes = NodeNames(g)
    /\ \A n \in DOMAIN nodes : nodes[n] \in NodeIndices(g) /\ g.nodes[nodes[n]] = n

\* C28: after every prune_graph that returned Ok the node-index map is
\* consistent with the graph, after prune_graph of pickle.rs and after
\* prune_graph of lib.rs (which do_pickle calls when it is given a top).
C28_MapConsistent ==
    /\ (last.op = "prune_graph" /\ err = None) =>
            Consistent(module_graph, module_graph_nodes)
    /\ (last.op = "gather" /\ top_module # None /\ pc = "emit") =>
            Consistent(pickle.module_graph, pickle.module_graph_nodes)

\* The second of two calls of prune_graph has returned.
PrunedTwice == last.op = "prune_graph" /\ "first" \in DOMAIN last

\* C29: prune_graph(T) followed by prune_graph(U): when T reaches U in the
\* graph before the first call, the second call returns Ok and leaves the nodes
\* and edges prune_graph(U) alone leaves of that graph, the names U reaches and
\* the edges between them (so prune_graph(T) twice leaves what it leaves once);
\* when T does not reach U the second call fails with top-not-found.
C29_PruneComposes ==
    PrunedTwice =>
        LET E == NamedEdges(last.first.pre.module_graph)
            reach == Closure(E, {last.top})
        IN IF last.top \in Closure(E, {last.first.top})
           THEN /\ err = None
                /\ NodeNames(module_graph) = reach
                /\ NamedEdges(module_graph) = {e \in E : e[1] \in reach /\ e[2] \in reach}
                /\ last.top = last.first.top =>
                      /\ NodeNames(module_graph) = NodeNames(last.pre.module_graph)
                      /\ NamedEdges(module_graph) = NamedEdges(last.pre.module_graph)
           ELSE err = "top_not_found" /\ pc = "failed"

\* Both calls removed a node: the second top is another name than the first,
\* the first reaches it, and an edge is left.
C29_Witness ==
    /\ PrunedTwice /\ err = None
    /\ last.top # last.first.top
    /\ Len(module_graph.nodes) < Len(last.pre.module_graph.nodes)
    /\ Len(last.pre.module_graph.nodes) < Len(last.first.pre.module_graph.nodes)

\* No element occurs twice in the sequence.
NoRepeat(q) == \A i, j \in DOMAIN q : q[i] = q[j] => i = j

\* C30: during library resolution no library file is recorded in used_libs
\* twice (load_module parses a file when it records it), and none is appended
\* twice to the library files do_pickle writes after the input files.
C30_LoadedOnce ==
    /\ NoRepeat(pickle.used_libs)
    /\ NoRepeat(library_files)

====
